---- MODULE Spec2Model ----
(***************************************************************************)
(* Model of the frame loop of vulkan_bootstrap: VulkanContext              *)
(* (src/src/vulkan_context.rs), its command/sync ring CommandBuffers       *)
(* (src/src/command_buffers.rs), Swapchain (src/src/swapchain.rs) and the  *)
(* VulkanDevice wrappers (src/src/device.rs).                              *)
(*                                                                         *)
(* The Vulkan driver and the GPU are the environment.  `dev` holds what    *)
(* the driver knows of the objects the ring owns: the life-cycle state of  *)
(* each command buffer, each fence, each binary semaphore and the          *)
(* submissions in flight.  A driver call returns whatever VkResult the     *)
(* environment picks, and vkAcquireNextImageKHR whatever image index the   *)
(* presentation engine picks among the swapchain's.  The first call        *)
(* that breaks a valid-usage rule of the Vulkan specification is recorded  *)
(* in dev.violation; what the driver does after that is undefined, so the  *)
(* model lets the handler that made the call return and follows the run    *)
(* no further.                                                             *)
(*                                                                         *)
(* A second specification, SpecSwapchain, follows the life of a Swapchain  *)
(* value: SwapchainBuilder::build with and without an old swapchain, and   *)
(* Drop for Swapchain.  `gpu` holds the swapchains and image views the     *)
(* driver has alive and the calls the last build or drop made.             *)
(*                                                                         *)
(* A third specification, SpecContext, follows VulkanContextBuilder::build *)
(* one `?` step at a time, from the instance to the frame buffers, then    *)
(* the buffers the caller creates and the teardown.  `world` holds the     *)
(* objects alive in creation order and the create and destroy calls made.  *)
(***************************************************************************)
EXTENDS Integers, Sequences, FiniteSets, TLC

\* Bounds of the model.
MaxFrames == 2      \* frames-in-flight counts F explored: 1..MaxFrames
MaxImages == 2      \* swapchain image counts N explored: F..MaxImages
MaxCycles == 5      \* complete successful frame cycles followed from construction
MaxBuilds == 4      \* swapchains the driver creates in a run
MaxDevices == 2     \* physical devices the instance enumerates: 0..MaxDevices
MaxFamilies == 2    \* queue families of a physical device: 0..MaxFamilies
MaxBuffers == 2     \* buffers the caller creates on a context
MaxMemoryTypes == 2 \* memory types of a physical device: 0..MaxMemoryTypes
MaxFormats == 3     \* surface formats a surface reports: 0..MaxFormats
MaxPresentModes == 3 \* present modes a surface reports: 0..MaxPresentModes

\* src/src/device.rs:15
FENCE_TIMEOUT == 100

VARIABLES
    owner,      \* the Swapchain value the caller holds, or None
    gpu,        \* the driver's swapchains and image views, calls of the last build or drop
    built,      \* the last swapchain operation: op, old swapchain handle, result
    ctx,        \* VulkanContext: frame_index, frames_count, back_buffer_index
    swapchain,  \* Swapchain of the context: number of images, of frame buffers
    dev,        \* driver and GPU state of the ring's objects, log of driver calls
    last,       \* the last public call and the Result it returned
    pre,        \* what the last public call found: ctx, phase, fence, cb state
    phase,      \* position in the cycle: recording after a successful frame_begin,
                \* submitted after a successful frame_end that followed it, else idle
    cyc,        \* the acquire and the submission of the cycle in progress
    clean,      \* every call so far was part of a complete successful cycle
    cycles,     \* complete successful cycles since construction (while clean)
    panicked,   \* a Rust panic (index out of bounds, unwrap) unwound the call
    builder,    \* VulkanContextBuilder: the fields the caller configured, or None
    stage,      \* how far VulkanContextBuilder::build got, then the context's life
    world       \* instance, devices and the objects made from them, calls in order

vars == <<owner, gpu, built, ctx, swapchain, dev, last, pre, phase, cyc, clean, cycles, panicked,
          builder, stage, world>>
swapvars == <<owner, gpu, built>>
loopvars == <<ctx, swapchain, dev, last, pre, phase, cyc, clean, cycles, panicked>>
buildvars == <<builder, stage, world>>

None == [none |-> TRUE]

Slots(F) == 0 .. (F - 1)

(***************************************************************************)
(* Handles created by CommandBuffersBuilder::build: one command buffer,    *)
(* one fence and two semaphores per ring slot.                             *)
(***************************************************************************)
CommandBufferOf(i) == <<"command_buffer", i>>
FenceOf(i) == <<"fence", i>>
PresentCompleteOf(i) == <<"present_complete", i>>
RenderCompleteOf(i) == <<"render_complete", i>>

Semaphores(F) ==
    {PresentCompleteOf(i) : i \in Slots(F)} \cup {RenderCompleteOf(i) : i \in Slots(F)}

\* CommandBuffersBuilder::build: the state of the ring right after construction.
CommandBuffersBuild_Unsignaled(F) ==
    [ cb        |-> [h \in {CommandBufferOf(i) : i \in Slots(F)} |-> "initial"],
      targets   |-> [h \in {CommandBufferOf(i) : i \in Slots(F)} |-> {}],
      fence     |-> [h \in {FenceOf(i) : i \in Slots(F)} |-> FALSE],
      sem       |-> [h \in Semaphores(F) |-> FALSE],
      inflight  |-> <<>>,
      violation |-> "none",
      log       |-> <<>> ]

CommandBuffersBuild(F) ==
    [ cb        |-> [h \in {CommandBufferOf(i) : i \in Slots(F)} |-> "initial"],
      targets   |-> [h \in {CommandBufferOf(i) : i \in Slots(F)} |-> {}],
      fence     |-> [h \in {FenceOf(i) : i \in Slots(F)} |-> TRUE],
      sem       |-> [h \in Semaphores(F) |-> FALSE],
      inflight  |-> <<>>,
      violation |-> "none",
      log       |-> <<>> ]

(***************************************************************************)
(* The driver.  Each operator is one VulkanDevice / Swapchain wrapper: it  *)
(* appends the call to d.log with the VkResult `vk` the environment        *)
(* picked, the Result the wrapper maps it to, and applies the call's       *)
(* effect on the driver state.                                             *)
(***************************************************************************)
Entry(call, args, vk, res, ret) ==
    [call |-> call, args |-> args, vk |-> vk, res |-> res, ret |-> ret]

Logged(d, e) == [d EXCEPT !.log = Append(@, e)]

LastEntry(d) == d.log[Len(d.log)]

\* The first broken valid-usage rule is kept.
Flag(d, broken, rule) ==
    IF broken /\ d.violation = "none" THEN [d EXCEPT !.violation = rule] ELSE d

FenceInUse(d, fence) == \E j \in 1 .. Len(d.inflight) : d.inflight[j].fence = fence

\* dev_wait_for_fences taking VK_TIMEOUT for success.
dev_wait_for_fences_TimeoutIsOk(d, fence, vk) ==
    LET got == IF vk = "SUCCESS" /\ ~d.fence[fence] THEN "TIMEOUT" ELSE vk
        res == IF got \in {"SUCCESS", "TIMEOUT"} THEN "Ok" ELSE "DeviceError"
    IN  Logged(d, Entry("wait_for_fences", [fence |-> fence, timeout |-> FENCE_TIMEOUT],
                        got, res, None))

\* VulkanDevice::wait_for_fences: vkWaitForFences(fences, true, FENCE_TIMEOUT).
\* A fence the GPU has not signaled by the end of the timeout gives VK_TIMEOUT,
\* which ash returns as Err and map_err turns into DeviceError.
dev_wait_for_fences(d, fence, vk) ==
    LET got == IF vk = "SUCCESS" /\ ~d.fence[fence] THEN "TIMEOUT" ELSE vk
        res == IF got = "SUCCESS" THEN "Ok" ELSE "DeviceError"
    IN  Logged(d, Entry("wait_for_fences", [fence |-> fence, timeout |-> FENCE_TIMEOUT],
                        got, res, None))

\* VulkanDevice::reset_fences
dev_reset_fences(d, fence, vk) ==
    LET d1 == Flag(d, FenceInUse(d, fence), "reset_fence_in_use")
        d2 == IF vk = "SUCCESS" THEN [d1 EXCEPT !.fence[fence] = FALSE] ELSE d1
    IN  Logged(d2, Entry("reset_fences", [fence |-> fence], vk,
                         IF vk = "SUCCESS" THEN "Ok" ELSE "DeviceError", None))

\* VulkanDevice::begin_command_buffer
dev_begin_command_buffer(d, cb, flags, vk) ==
    LET d1 == Flag(d, d.cb[cb] = "pending", "begin_while_pending")
        d2 == Flag(d1, d.cb[cb] = "recording", "begin_while_recording")
        d3 == IF vk = "SUCCESS"
              THEN [d2 EXCEPT !.cb[cb] = "recording", !.targets[cb] = {}]
              ELSE d2
    IN  Logged(d3, Entry("begin_command_buffer", [cb |-> cb, flags |-> flags], vk,
                         IF vk = "SUCCESS" THEN "Ok" ELSE "DeviceError", None))

\* VulkanDevice::end_command_buffer: a failed vkEndCommandBuffer leaves the
\* command buffer invalid.
dev_end_command_buffer(d, cb, vk) ==
    LET d1 == Flag(d, d.cb[cb] # "recording", "end_not_recording")
        d2 == IF vk = "SUCCESS"
              THEN [d1 EXCEPT !.cb[cb] = "executable"]
              ELSE [d1 EXCEPT !.cb[cb] = "invalid", !.targets[cb] = {}]
    IN  Logged(d2, Entry("end_command_buffer", [cb |-> cb], vk,
                         IF vk = "SUCCESS" THEN "Ok" ELSE "DeviceError", None))

\* VulkanDevice::queue_submit with one vk::SubmitInfo and a fence.
dev_queue_submit(d, info, fence, vk) ==
    LET d1 == Flag(d, d.cb[info.cb] # "executable", "submit_not_executable")
        d2 == Flag(d1, d.fence[fence] \/ FenceInUse(d, fence), "submit_fence_not_free")
        d3 == Flag(d2, ~d.sem[info.wait], "submit_wait_never_signaled")
        d4 == Flag(d3, d.sem[info.signal], "submit_signal_already_signaled")
        sub == [cb |-> info.cb, wait |-> info.wait, stage |-> info.stage,
                signal |-> info.signal, fence |-> fence]
        d5 == IF vk = "SUCCESS"
              THEN [d4 EXCEPT !.cb[info.cb] = "pending",
                              !.sem[info.wait] = FALSE,
                              !.sem[info.signal] = TRUE,
                              !.inflight = Append(@, sub)]
              ELSE d4
    IN  Logged(d5, Entry("queue_submit", sub, vk,
                         IF vk = "SUCCESS" THEN "Ok" ELSE "DeviceError", None))

\* VulkanDevice::cmd_begin_render_pass: records a render pass that writes the
\* image the frame buffer binds.
dev_cmd_begin_render_pass(d, cb, image) ==
    LET d1 == Flag(d, d.cb[cb] # "recording", "cmd_not_recording")
    IN  Logged([d1 EXCEPT !.targets[cb] = @ \cup {image}],
               Entry("cmd_begin_render_pass", [cb |-> cb, image |-> image],
                     "SUCCESS", "Ok", None))


(***************************************************************************)
(* Swapchain (src/src/swapchain.rs).                                       *)
(***************************************************************************)
Images(sc) == 0 .. (sc.images - 1)

\* Swapchain::acquire_next_image: vkAcquireNextImageKHR(swapchain, u64::MAX,
\* semaphore, null fence).  ash returns Ok((index, suboptimal)) for VK_SUCCESS
\* and VK_SUBOPTIMAL_KHR and the code drops the flag; any other result is
\* mapped to SwapchainError.
acquire_next_image(d, sc, semaphore, vk, image) ==
    LET ok == vk \in {"SUCCESS", "SUBOPTIMAL_KHR"}
        d1 == Flag(d, d.sem[semaphore], "acquire_semaphore_already_signaled")
        d2 == IF ok THEN [d1 EXCEPT !.sem[semaphore] = TRUE] ELSE d1
    IN  Logged(d2, Entry("acquire_next_image",
                         [semaphore |-> semaphore, timeout |-> "u64::MAX"], vk,
                         IF ok THEN "Ok" ELSE "SwapchainError",
                         IF ok THEN image ELSE None))

\* Swapchain::queue_present: vkQueuePresentKHR with one wait semaphore and one
\* image index.  VK_SUCCESS and VK_SUBOPTIMAL_KHR are Ok; an out-of-date
\* present is still enqueued by the driver (its semaphore wait executes).
queue_present(d, semaphore, image_index, vk) ==
    LET ok == vk \in {"SUCCESS", "SUBOPTIMAL_KHR"}
        queued == ok \/ vk = "ERROR_OUT_OF_DATE_KHR"
        d1 == Flag(d, ~d.sem[semaphore], "present_wait_never_signaled")
        d2 == IF queued THEN [d1 EXCEPT !.sem[semaphore] = FALSE] ELSE d1
    IN  Logged(d2, Entry("queue_present",
                         [semaphore |-> semaphore, image_index |-> image_index], vk,
                         IF ok THEN "Ok" ELSE "SwapchainError", None))

(***************************************************************************)
(* CommandBuffers (src/src/command_buffers.rs): the ring.                  *)
(***************************************************************************)
\* CommandBuffers::get
get(index) == CommandBufferOf(index)

\* get_present_complete_semaphore handing out the first slot's semaphore.
get_present_complete_semaphore_First(index) == PresentCompleteOf(0)

\* CommandBuffers::get_present_complete_semaphore
get_present_complete_semaphore(index) == PresentCompleteOf(index)

\* CommandBuffers::get_render_complete_semaphore
get_render_complete_semaphore(index) == RenderCompleteOf(index)

\* CommandBuffers::wait_for_fence
wait_for_fence(d, frame_index, vk) == dev_wait_for_fences(d, FenceOf(frame_index), vk)

\* CommandBuffers::reset_fence
reset_fence(d, frame_index, vk) == dev_reset_fences(d, FenceOf(frame_index), vk)

\* CommandBuffers::begin_command_buffer
begin_command_buffer(d, frame_index, vk) ==
    dev_begin_command_buffer(d, CommandBufferOf(frame_index), "ONE_TIME_SUBMIT", vk)

\* CommandBuffers::end_command_buffer
end_command_buffer(d, frame_index, vk) ==
    dev_end_command_buffer(d, CommandBufferOf(frame_index), vk)

\* CommandBuffers::queue_submit
queue_submit(d, frame_index, vk) ==
    dev_queue_submit(d,
        [ wait   |-> PresentCompleteOf(frame_index),
          stage  |-> "COLOR_ATTACHMENT_OUTPUT",
          cb     |-> CommandBufferOf(frame_index),
          signal |-> RenderCompleteOf(frame_index) ],
        FenceOf(frame_index), vk)

(***************************************************************************)
(* VulkanContext (src/src/vulkan_context.rs).  Each operator is one public *)
(* method: it takes the context, the driver state and the VkResults the    *)
(* environment picks for the driver calls the method may make, and gives   *)
(* the context and driver state it leaves and the Result it returns.  `?`  *)
(* returns the first Err.                                                  *)
(***************************************************************************)
Return(c, d, res) == [ctx |-> c, dev |-> d, res |-> res]

Res(d) == LastEntry(d).res

\* frame_begin without the fence wait.
frame_begin_NoWait(c, sc, d, in) ==
    LET d0 == [d EXCEPT !.log = <<>>]
        d2 == acquire_next_image(d0, sc, get_present_complete_semaphore(c.frame_index),
                                 in.acquire, in.image)
        c2 == [c EXCEPT !.back_buffer_index = LastEntry(d2).ret]
        d3 == begin_command_buffer(d2, c.frame_index, in.begin)
    IN  IF Res(d2) # "Ok" THEN Return(c, d2, Res(d2))
        ELSE Return(c2, d3, Res(d3))

\* VulkanContext::frame_begin
frame_begin(c, sc, d, in) ==
    LET d0 == [d EXCEPT !.log = <<>>]
        d1 == wait_for_fence(d0, c.frame_index, in.wait)
        d2 == acquire_next_image(d1, sc, get_present_complete_semaphore(c.frame_index),
                                 in.acquire, in.image)
        c2 == [c EXCEPT !.back_buffer_index = LastEntry(d2).ret]
        d3 == begin_command_buffer(d2, c.frame_index, in.begin)
    IN  IF Res(d1) # "Ok" THEN Return(c, d1, Res(d1))
        ELSE IF Res(d2) # "Ok" THEN Return(c, d2, Res(d2))
        ELSE Return(c2, d3, Res(d3))

\* frame_end resetting the fence before it ends the recording.
frame_end_ResetFirst(c, d, in) ==
    LET d0 == [d EXCEPT !.log = <<>>]
        d1 == reset_fence(d0, c.frame_index, in.reset)
        d2 == end_command_buffer(d1, c.frame_index, in.end)
        d3 == queue_submit(d2, c.frame_index, in.submit)
    IN  IF Res(d1) # "Ok" THEN Return(c, d1, Res(d1))
        ELSE IF Res(d2) # "Ok" THEN Return(c, d2, Res(d2))
        ELSE Return(c, d3, Res(d3))

\* VulkanContext::frame_end
frame_end(c, d, in) ==
    LET d0 == [d EXCEPT !.log = <<>>]
        d1 == end_command_buffer(d0, c.frame_index, in.end)
        d2 == reset_fence(d1, c.frame_index, in.reset)
        d3 == queue_submit(d2, c.frame_index, in.submit)
    IN  IF Res(d1) # "Ok" THEN Return(c, d1, Res(d1))
        ELSE IF Res(d2) # "Ok" THEN Return(c, d2, Res(d2))
        ELSE Return(c, d3, Res(d3))

\* frame_present leaving the ring index where it is.
frame_present_NoAdvance(c, d, in) ==
    LET d0 == [d EXCEPT !.log = <<>>]
        d1 == queue_present(d0, get_render_complete_semaphore(c.frame_index),
                            c.back_buffer_index, in.present)
    IN  Return(c, d1, Res(d1))

\* frame_present presenting the image whose index is the ring index.
frame_present_PresentsSlot(c, d, in) ==
    LET d0 == [d EXCEPT !.log = <<>>]
        d1 == queue_present(d0, get_render_complete_semaphore(c.frame_index),
                            c.frame_index, in.present)
        c1 == [c EXCEPT !.frame_index = (c.frame_index + 1) % c.frames_count]
    IN  IF Res(d1) # "Ok" THEN Return(c, d1, Res(d1))
        ELSE Return(c1, d1, "Ok")

\* VulkanContext::frame_present
frame_present_AdvancesOnFailure(c, d, in) ==
    LET d0 == [d EXCEPT !.log = <<>>]
        d1 == queue_present(d0, get_render_complete_semaphore(c.frame_index),
                            c.back_buffer_index, in.present)
        c1 == [c EXCEPT !.frame_index = (c.frame_index + 1) % c.frames_count]
    IN  Return(c1, d1, Res(d1))

frame_present(c, d, in) ==
    LET d0 == [d EXCEPT !.log = <<>>]
        d1 == queue_present(d0, get_render_complete_semaphore(c.frame_index),
                            c.back_buffer_index, in.present)
        c1 == [c EXCEPT !.frame_index = (c.frame_index + 1) % c.frames_count]
    IN  IF Res(d1) # "Ok" THEN Return(c, d1, Res(d1))
        ELSE Return(c1, d1, "Ok")

\* FrameBuffers::get: indexing the Vec panics past its end.
frame_buffers_get(sc, index) ==
    IF index < Len(sc.frame_buffers) THEN sc.frame_buffers[index + 1] ELSE None

\* VulkanContext::begin_render_pass
begin_render_pass(c, sc, d) ==
    LET d0 == [d EXCEPT !.log = <<>>]
        fb == frame_buffers_get(sc, c.back_buffer_index)
    IN  IF fb = None
        THEN [dev |-> d0, panic |-> TRUE]
        ELSE [dev |-> dev_cmd_begin_render_pass(d0, get(c.frame_index), fb.image),
              panic |-> FALSE]

\* FrameBuffersBuilder::build: frames_count frame buffers, the i-th binding the
\* image view of swapchain image i.
FrameBuffersBuild(frames_count) ==
    [i \in 1 .. frames_count |-> [image |-> i - 1]]

\* VulkanContextBuilder::build: the fields of the context after construction.
ContextBuild(frames_count) ==
    [frame_index |-> 0, frames_count |-> frames_count, back_buffer_index |-> 0]


(***************************************************************************)
(* Swapchain construction and destruction.                                 *)
(***************************************************************************)
NullHandle == 0

GpuStart == [swapchains |-> {}, views |-> {}, made |-> 0, log |-> <<>>]

Call(g, call, arg, res) ==
    [g EXCEPT !.log = Append(@, [call |-> call, arg |-> arg, res |-> res])]

\* Drop for Swapchain: the image views, then the swapchain through the
\* loader; unwrap of a loader that was taken away panics.
SwapchainDrop(g, sc) ==
    LET g1 == IF sc.image_views = {} THEN g
              ELSE Call([g EXCEPT !.views = @ \ sc.image_views],
                        "destroy_image_view", sc.image_views, "done")
    IN  IF sc.swapchain_loader
        THEN [gpu |-> Call([g1 EXCEPT !.swapchains = @ \ {sc.swapchain}],
                           "destroy_swapchain", sc.swapchain, "done"),
              panic |-> FALSE]
        ELSE [gpu |-> g1, panic |-> TRUE]

\* An Option<Swapchain> going out of scope.
DropOption(g, o) ==
    IF o = None THEN [gpu |-> g, panic |-> FALSE] ELSE SwapchainDrop(g, o)

\* SwapchainBuilder::build.  `in` holds what the driver answers: the surface
\* queries, vkCreateSwapchainKHR, vkGetSwapchainImagesKHR, the number of
\* images and how many image views are created before one fails.
SwapchainBuilderBuild(g, old_swapchain, frames_count, in) ==
    LET g0 == [g EXCEPT !.log = <<>>]
        old == IF old_swapchain = None THEN NullHandle ELSE old_swapchain.swapchain
        swapchain_loader == IF old_swapchain = None THEN TRUE
                            ELSE old_swapchain.swapchain_loader
        taken == IF old_swapchain = None THEN None
                 ELSE [old_swapchain EXCEPT !.swapchain_loader = FALSE]
        created == in.create = "SUCCESS"
        h == g.made + 1
        g1 == Call(IF created THEN [g0 EXCEPT !.swapchains = @ \cup {h}, !.made = h] ELSE g0,
                   "create_swapchain",
                   [old_swapchain |-> old,
                    old_alive |-> old \in g.swapchains,
                    min_image_count |-> frames_count],
                   IF created THEN "Ok" ELSE "SwapchainCreationError")
        early == DropOption(g0, old_swapchain)
        d == DropOption(g1, taken)
        g2 == Call(d.gpu, "get_swapchain_images", h,
                   IF in.images = "SUCCESS" THEN "Ok" ELSE "SwapchainCreationError")
        image_views == {<<h, i>> : i \in 0 .. (in.views - 1)}
        g3 == Call([g2 EXCEPT !.views = @ \cup image_views], "create_image_view", image_views,
                   IF in.views = in.count THEN "Ok" ELSE "DeviceError")
        Out(gx, res, sc) == [gpu |-> gx, res |-> res, sc |-> sc]
    IN  IF in.query # "SUCCESS"
        THEN Out(early.gpu, IF early.panic THEN "panic" ELSE "SurfaceError", None)
        ELSE IF ~swapchain_loader THEN Out(DropOption(g0, taken).gpu, "panic", None)
        ELSE IF ~created
        THEN Out(d.gpu, IF d.panic THEN "panic" ELSE "SwapchainCreationError", None)
        ELSE IF d.panic THEN Out(d.gpu, "panic", None)
        ELSE IF in.images # "SUCCESS" THEN Out(g2, "SwapchainCreationError", None)
        ELSE IF in.views < in.count THEN Out(g3, "panic", None)
        ELSE Out(g3, "Ok", [swapchain_loader |-> swapchain_loader,
                            swapchain |-> h,
                            image_views |-> image_views])

\* Before VulkanContextBuilder::build: nothing is created, nothing is alive.
WorldStart ==
    [ log             |-> <<>>,     \* driver calls of build, then of the last operation
      op              |-> "build",  \* the operation the log is of
      alive           |-> <<>>,     \* the values that own something, in creation order
      created         |-> <<>>,     \* every value ever made, in creation order
      memory_types    |-> <<>>,     \* property flags of the device's memory types
      rc              |-> [instance |-> 0, device |-> 0],   \* Rc strong counts
      destroyed       |-> <<>>,     \* what was destroyed, in order
      pending         |-> {},       \* buffers used by submitted, unfinished commands
      violation       |-> "none",
      res             |-> "building",
      devices         |-> 0,        \* physical devices enumerated
      examined        |-> <<>>,     \* for each device find_map has looked at
      physical_device |-> <<>>,     \* Option: the PhysicalDevice selected
      swapchain       |-> <<>>,     \* Option: create info, surface capabilities, images
      depth_image     |-> <<>>,     \* Option: extent of the depth image
      frame_buffers   |-> <<>>,
      buffers         |-> 0,        \* create_buffer calls so far
      lookup          |-> <<>> ]    \* Option: the last find_memory_type

(***************************************************************************)
(* The state machine.                                                      *)
(***************************************************************************)
\* The VkResults the environment picks from: success, or an error the
\* wrapper maps to Err.
VkDevice == {"SUCCESS", "ERROR_DEVICE_LOST"}
VkSwapchain == {"SUCCESS", "SUBOPTIMAL_KHR", "ERROR_OUT_OF_DATE_KHR", "ERROR_DEVICE_LOST"}
VkSurface == {"SUCCESS", "ERROR_SURFACE_LOST_KHR"}

\* The driver creates at least min_image_count = frames_count images.
\* What the driver answers to the calls of one SwapchainBuilder::build; the
\* answers to calls after the first failing one are never read.
SwapchainBuildInputs(frames_count) ==
    {in \in [query : VkSurface, create : VkDevice, images : VkDevice,
             count : frames_count .. MaxImages, views : 0 .. MaxImages] :
        /\ in.views <= in.count
        /\ in.query # "SUCCESS" => in.create = "SUCCESS"
        /\ (in.query # "SUCCESS" \/ in.create # "SUCCESS") => in.images = "SUCCESS"
        /\ (in.query # "SUCCESS" \/ in.create # "SUCCESS" \/ in.images # "SUCCESS")
              => in.count = frames_count /\ in.views = in.count}

AllSuccess(N) ==
    [query |-> "SUCCESS", create |-> "SUCCESS", images |-> "SUCCESS", count |-> N, views |-> N]

InitLoop ==
    \E F \in 1 .. MaxFrames : \E N \in F .. MaxImages :
        /\ LET out == SwapchainBuilderBuild(GpuStart, None, F, AllSuccess(N))
           IN  /\ owner = out.sc
               /\ gpu = out.gpu
               /\ built = [op |-> "build", old |-> NullHandle, res |-> out.res]
        /\ ctx = ContextBuild(F)
        /\ swapchain = [images |-> N, frame_buffers |-> FrameBuffersBuild(F)]
        /\ dev = CommandBuffersBuild(F)
        /\ last = [op |-> "build", res |-> "Ok"]
        /\ pre = None
        /\ phase = "idle"
        /\ cyc = [acq |-> None, sub |-> None]
        /\ clean = TRUE
        /\ cycles = 0
        /\ panicked = FALSE

Init ==
    /\ InitLoop
    /\ builder = None
    /\ stage = "new"
    /\ world = WorldStart

\* A run is followed while the driver's behaviour is defined, no panic has
\* unwound a call and fewer than MaxCycles clean cycles are complete.
Running == dev.violation = "none" /\ ~panicked /\ cycles < MaxCycles

Snapshot ==
    [ ctx   |-> ctx,
      phase |-> phase,
      fence |-> dev.fence[FenceOf(ctx.frame_index)],
      cb    |-> dev.cb[CommandBufferOf(ctx.frame_index)] ]

\* The log entries of call `name` that returned Ok.
OkCalls(d, name) ==
    {j \in 1 .. Len(d.log) : d.log[j].call = name /\ d.log[j].res = "Ok"}

\* What the environment picks for the driver calls of one frame_begin and of
\* one frame_end; a call after a failed one is not made.
FrameBeginInputs(sc) ==
    {in \in [wait : VkDevice, acquire : VkSwapchain, image : Images(sc), begin : VkDevice] :
        /\ in.wait # "SUCCESS" => in.acquire = "SUCCESS" /\ in.begin = "SUCCESS"
        /\ in.acquire \notin {"SUCCESS", "SUBOPTIMAL_KHR"} => in.image = 0 /\ in.begin = "SUCCESS"}

FrameEndInputs ==
    {in \in [end : VkDevice, reset : VkDevice, submit : VkDevice] :
        /\ in.end # "SUCCESS" => in.reset = "SUCCESS" /\ in.submit = "SUCCESS"
        /\ in.reset # "SUCCESS" => in.submit = "SUCCESS"}

\* The answers to calls a handler did not make are never read: VK_SUCCESS
\* stands for all of them.
Unread(d, answers) ==
    \A j \in (Len(d.log) + 1) .. Len(answers) : answers[j] = "SUCCESS"

FrameBegin ==
    /\ Running
    /\ \E in \in FrameBeginInputs(swapchain) :
       \E out \in {frame_begin(ctx, swapchain, dev, in)} :
        LET acq == OkCalls(out.dev, "acquire_next_image")
            got == out.dev.log[CHOOSE j \in acq : TRUE]
        IN  /\ Unread(out.dev, <<in.wait, in.acquire, in.begin>>)
            /\ acq = {} => in.image = 0
            /\ ctx' = out.ctx
            /\ dev' = out.dev
            /\ last' = [op |-> "frame_begin", res |-> out.res]
            /\ pre' = Snapshot
            /\ phase' = IF out.res = "Ok" THEN "recording" ELSE "idle"
            /\ cyc' = IF acq # {}
                      THEN [acq |-> [semaphore |-> got.args.semaphore,
                                     image |-> got.ret,
                                     slot |-> ctx.frame_index],
                            sub |-> None]
                      ELSE [acq |-> None, sub |-> None]
            /\ clean' = (clean /\ phase = "idle" /\ out.res = "Ok")
            /\ cycles' = IF clean' THEN cycles ELSE 0
    /\ UNCHANGED <<swapchain, panicked>>
    /\ UNCHANGED swapvars
    /\ UNCHANGED buildvars

FrameEnd ==
    /\ Running
    /\ \E in \in FrameEndInputs :
       \E out \in {frame_end(ctx, dev, in)} :
        LET sub == OkCalls(out.dev, "queue_submit")
        IN  /\ Unread(out.dev, <<in.end, in.reset, in.submit>>)
            /\ ctx' = out.ctx
            /\ dev' = out.dev
            /\ last' = [op |-> "frame_end", res |-> out.res]
            /\ pre' = Snapshot
            /\ phase' = IF out.res = "Ok" /\ phase = "recording" THEN "submitted" ELSE "idle"
            /\ cyc' = IF phase # "recording" THEN [acq |-> None, sub |-> None]
                      ELSE IF sub # {}
                      THEN [cyc EXCEPT !.sub = out.dev.log[CHOOSE j \in sub : TRUE].args]
                      ELSE cyc
            /\ clean' = (clean /\ phase = "recording" /\ out.res = "Ok")
            /\ cycles' = IF clean' THEN cycles ELSE 0
    /\ UNCHANGED <<swapchain, panicked>>
    /\ UNCHANGED swapvars
    /\ UNCHANGED buildvars

FramePresent ==
    /\ Running
    /\ \E p \in VkSwapchain :
       \E out \in {frame_present(ctx, dev, [present |-> p])} :
            /\ ctx' = out.ctx
            /\ dev' = out.dev
            /\ last' = [op |-> "frame_present", res |-> out.res]
            /\ pre' = Snapshot
            /\ phase' = "idle"
            /\ clean' = (clean /\ phase = "submitted" /\ out.res = "Ok")
            /\ cycles' = IF clean' THEN cycles + 1 ELSE 0
    /\ UNCHANGED <<swapchain, cyc, panicked>>
    /\ UNCHANGED swapvars
    /\ UNCHANGED buildvars

BeginRenderPass ==
    /\ Running
    /\ \E out \in {begin_render_pass(ctx, swapchain, dev)} :
           /\ dev' = out.dev
           /\ panicked' = out.panic
           /\ last' = [op |-> "begin_render_pass", res |-> IF out.panic THEN "panic" ELSE "Ok"]
    /\ pre' = Snapshot
    /\ UNCHANGED <<ctx, swapchain, phase, cyc, clean, cycles>>
    /\ UNCHANGED swapvars
    /\ UNCHANGED buildvars

\* The GPU finishes the oldest submission of the queue (the queue signals
\* its fences in submission order): the fence is signaled and the command
\* buffer, recorded for one submission, becomes invalid.
GpuComplete ==
    /\ dev.violation = "none"
    /\ dev.inflight # <<>>
    /\ LET s == Head(dev.inflight)
       IN  dev' = [dev EXCEPT !.inflight = Tail(@),
                              !.fence[s.fence] = TRUE,
                              !.cb[s.cb] = "invalid",
                              !.targets[s.cb] = {}]
    /\ UNCHANGED <<ctx, swapchain, last, pre, phase, cyc, clean, cycles, panicked>>
    /\ UNCHANGED swapvars
    /\ UNCHANGED buildvars

Next ==
    \/ FrameBegin
    \/ FrameEnd
    \/ FramePresent
    \/ BeginRenderPass
    \/ GpuComplete

Spec == Init /\ [][Next]_vars

(***************************************************************************)
(* The swapchain's life: a caller that holds the context's swapchain       *)
(* rebuilds it with the old one as hint, drops it, or builds a fresh one.  *)
(***************************************************************************)
Unwound == built.res = "panic"

\* SwapchainBuilder::new(..).with_frames_count(F).build()
SwapchainBuild ==
    /\ ~Unwound
    /\ owner = None
    /\ gpu.made < MaxBuilds
    /\ \E in \in SwapchainBuildInputs(ctx.frames_count) :
        LET out == SwapchainBuilderBuild(gpu, None, ctx.frames_count, in)
        IN  /\ gpu' = out.gpu
            /\ owner' = out.sc
            /\ built' = [op |-> "build", old |-> NullHandle, res |-> out.res]
    /\ UNCHANGED loopvars
    /\ UNCHANGED buildvars

\* SwapchainBuilder::new(..).with_old_swapchain(Some(old)).with_frames_count(F).build()
SwapchainRebuild ==
    /\ ~Unwound
    /\ owner # None
    /\ gpu.made < MaxBuilds
    /\ \E in \in SwapchainBuildInputs(ctx.frames_count) :
        LET out == SwapchainBuilderBuild(gpu, owner, ctx.frames_count, in)
        IN  /\ gpu' = out.gpu
            /\ owner' = out.sc
            /\ built' = [op |-> "build", old |-> owner.swapchain, res |-> out.res]
    /\ UNCHANGED loopvars
    /\ UNCHANGED buildvars

\* The caller lets go of its swapchain.
SwapchainDropped ==
    /\ ~Unwound
    /\ owner # None
    /\ LET out == SwapchainDrop([gpu EXCEPT !.log = <<>>], owner)
       IN  /\ gpu' = out.gpu
           /\ owner' = None
           /\ built' = [op |-> "drop", old |-> owner.swapchain,
                        res |-> IF out.panic THEN "panic" ELSE "Ok"]
    /\ UNCHANGED loopvars
    /\ UNCHANGED buildvars

NextSwapchain ==
    \/ SwapchainBuild
    \/ SwapchainRebuild
    \/ SwapchainDropped

SpecSwapchain == Init /\ [][NextSwapchain]_vars


(***************************************************************************)
(* Construction of the context (VulkanContextBuilder::build) and what it   *)
(* builds from: PhysicalDeviceBuilder, VulkanDeviceBuilder, the swapchain  *)
(* create info, DepthResourcesBuilder, FrameBuffersBuilder.                *)
(***************************************************************************)
\* Option<T>: None is the empty sequence, Some(x) the sequence of x.
Nothing == <<>>
Some(x) == <<x>>
is_some(o) == o # <<>>
unwrap(o) == o[1]

\* An object of the run: its kind and, for the caller's buffers, which one.
Obj(kind) == <<kind, 0>>
BufferObj(k) == <<"buffer", k>>
StagingObj(k) == <<"staging_buffer", k>>

\* The Result of a driver call that the wrapper maps with map_err.
ResultOf(vk, err) == IF vk = "SUCCESS" THEN "Ok" ELSE err

Noted(w, call, obj, res) ==
    [w EXCEPT !.log = Append(@, [call |-> call, obj |-> obj, res |-> res])]

\* A vkDestroy call (or the destroy calls of one Drop).  Destroying a buffer
\* that a submitted command still uses breaks the valid usage of the call.
Destroyed(w, v) ==
    Noted([w EXCEPT !.destroyed = Append(@, v),
                    !.violation = IF v \in w.pending /\ @ = "none"
                                  THEN "destroyed_while_pending" ELSE @],
          "destroy", v, "done")

\* Rc::new and Rc::clone of the instance and of the logical device.
Cloned(w, rc) == [w EXCEPT !.rc[rc] = @ + 1]

\* Drop for VulkanInstance, run when its last Rc goes.
ReleaseInstance(w) ==
    LET w1 == [w EXCEPT !.rc.instance = @ - 1]
    IN  IF w1.rc.instance = 0 THEN Destroyed(w1, Obj("instance")) ELSE w1

\* Drop for VulkanDevice, run when its last Rc goes: vkDestroyDevice, then
\* the field `instance` is dropped.
ReleaseDevice(w) ==
    LET w1 == [w EXCEPT !.rc.device = @ - 1]
    IN  IF w1.rc.device = 0
        THEN ReleaseInstance(Destroyed(w1, Obj("device")))
        ELSE w1

\* The kinds of value whose Drop destroys driver objects through the
\* Rc<VulkanDevice> they hold.
DeviceChildren ==
    {"command_buffers", "swapchain", "depth_resources", "render_pass", "frame_buffers",
     "buffer", "staging_buffer"}

\* One value going out of scope.
DropValue(w, v) ==
    LET w0 == [w EXCEPT !.alive = SelectSeq(@, LAMBDA x : x # v)]
    IN  IF v[1] \in DeviceChildren THEN ReleaseDevice(Destroyed(w0, v))
        ELSE IF v[1] = "surface" THEN Destroyed(w0, v)
        ELSE IF v[1] = "device" THEN ReleaseDevice(w0)
        ELSE ReleaseInstance(w0)

\* A `?` or a panic leaving VulkanContextBuilder::build: the locals are
\* dropped in reverse order of declaration.
RECURSIVE Unwind(_)
Unwind(w) ==
    IF w.alive = <<>> THEN w ELSE Unwind(DropValue(w, w.alive[Len(w.alive)]))

\* A value bound to a local of build or to a field of the context.
Kept(w, v) == [w EXCEPT !.alive = Append(@, v), !.created = Append(@, v)]

Extensions == {"VK_KHR_swapchain"}
FeatureNames == {"sampler_anisotropy", "runtime_descriptor_array"}

\* vk::QueueFamilyProperties and the surface-support answer for the family.
QueueFamilies ==
    [queue_count : {1}, graphics : BOOLEAN, surface_support : BOOLEAN]
        \cup {[queue_count |-> 0, graphics |-> TRUE, surface_support |-> FALSE]}

\* QueueFamilyIndices::is_complete
is_complete(q) == is_some(q.graphics_family) /\ is_some(q.present_family)

\* PhysicalDeviceBuilder::find_queue_families: the loop from family `index`
\* (counted from 1 here, from 0 in the source) on.
RECURSIVE find_queue_families_from(_, _, _, _)
find_queue_families_from(queue_families, index, graphics_family, present_family) ==
    IF index > Len(queue_families)
    THEN [graphics_family |-> graphics_family, present_family |-> present_family]
    ELSE LET queue_family == queue_families[index]
             g == IF queue_family.queue_count > 0 /\ queue_family.graphics
                  THEN Some(index - 1) ELSE graphics_family
             p == IF queue_family.surface_support THEN Some(index - 1) ELSE present_family
         IN  IF is_some(g) /\ is_some(p)
             THEN [graphics_family |-> g, present_family |-> p]
             ELSE find_queue_families_from(queue_families, index + 1, g, p)

find_queue_families(device) ==
    find_queue_families_from(device.queue_families, 1, Nothing, Nothing)

\* PhysicalDeviceBuilder::check_device_extensions_support, after the
\* enumeration succeeded.
check_device_extensions_support_Any(extensions, device) == TRUE

check_device_extensions_support(extensions, device) ==
    \A extension \in extensions : extension \in device.extensions

\* PhysicalDeviceBuilder::is_device_suitable.  query_swapchain_support and
\* the extension enumeration are unwrapped: a failed query panics.
is_device_suitable(extensions, sampler_anisotropy, device) ==
    IF device.query # "SUCCESS" \/ device.ext_query # "SUCCESS"
    THEN [panic |-> TRUE, suitable |-> FALSE]
    ELSE [panic |-> FALSE,
          suitable |->
              /\ check_device_extensions_support(extensions, device)
              /\ device.formats > 0
              /\ device.present_modes > 0
              /\ (sampler_anisotropy => "sampler_anisotropy" \in device.features)]

\* The closure PhysicalDeviceBuilder::build hands to find_map, applied to
\* one enumerated device.
find_map_closure(extensions, sampler_anisotropy, device) ==
    LET queue_family_indices == find_queue_families(device)
        s == is_device_suitable(extensions, sampler_anisotropy, device)
    IN  [panic |-> s.panic,
         found |-> IF ~s.panic /\ s.suitable /\ is_complete(queue_family_indices)
                   THEN Some([graphics_queue_family |->
                                  unwrap(queue_family_indices.graphics_family),
                              present_queue_family |->
                                  unwrap(queue_family_indices.present_family),
                              features |-> device.features])
                   ELSE Nothing]

\* What the claims call a qualifying device, read off the driver's answers
\* without the code's loops.
Qualifies(b, device) ==
    /\ device.query = "SUCCESS" /\ device.ext_query = "SUCCESS"
    /\ b.extensions \subseteq device.extensions
    /\ device.formats >= 1
    /\ device.present_modes >= 1
    /\ (b.sampler_anisotropy => "sampler_anisotropy" \in device.features)
    /\ \E i \in 1 .. Len(device.queue_families) :
          device.queue_families[i].graphics /\ device.queue_families[i].queue_count > 0
    /\ \E i \in 1 .. Len(device.queue_families) : device.queue_families[i].surface_support

\* The Rc's a new value holds: Rc::new for the instance and the device,
\* Rc::clone for everything built from them.
Held(w, v) ==
    IF v[1] \in DeviceChildren THEN Cloned(w, "device")
    ELSE IF v[1] = "device" THEN Cloned(Cloned(w, "device"), "instance")
    ELSE IF v[1] \in {"instance", "physical_device"} THEN Cloned(w, "instance")
    ELSE w

\* build leaves through `?`: the error is returned and the locals dropped.
Failed(w, res) == [Unwind(w) EXCEPT !.res = res]

\* One builder of VulkanContextBuilder::build followed by `?`.
Make(w, v, vk, err) ==
    IF vk = "SUCCESS"
    THEN Kept(Held(Noted(w, "create", v, "Ok"), v), v)
    ELSE Failed(Noted(w, "create", v, err), err)

Widths == {640, 800}
Heights == {480}

\* VulkanContextBuilder::new() and the with_ calls of the caller.
Builders ==
    [frames_count : 1 .. MaxFrames, width : Widths, height : Heights,
     extensions : SUBSET Extensions,
     sampler_anisotropy : BOOLEAN, runtime_descriptor_array : BOOLEAN]

\* The features create_logical_device asks the device builder to enable.
RequiredFeatures(b) ==
    {f \in FeatureNames : (f = "sampler_anisotropy" /\ b.sampler_anisotropy)
                          \/ (f = "runtime_descriptor_array" /\ b.runtime_descriptor_array)}

\* What the driver answers about one physical device; the answers after a
\* failed query are never read.
RECURSIVE SeqsUpTo(_, _)
SeqsUpTo(S, n) ==
    IF n = 0 THEN {<<>>}
    ELSE LET shorter == SeqsUpTo(S, n - 1)
         IN  shorter \cup {Append(q, x) : q \in {r \in shorter : Len(r) = n - 1}, x \in S}

PhysicalDevices ==
    {d \in [queue_families : SeqsUpTo(QueueFamilies, MaxFamilies),
            query : VkSurface, ext_query : VkDevice,
            extensions : SUBSET Extensions, formats : 0 .. 1, present_modes : 0 .. 1,
            features : SUBSET FeatureNames] :
        /\ d.query # "SUCCESS" => d.ext_query = "SUCCESS" /\ d.features = {}
        /\ (d.query # "SUCCESS" \/ d.ext_query # "SUCCESS")
              => d.extensions = {} /\ d.formats = 0 /\ d.present_modes = 0}

ContextBuilderNew ==
    /\ stage = "new"
    /\ builder' \in Builders
    /\ stage' = "configured"
    /\ UNCHANGED <<world, swapvars, loopvars>>

\* let instance = Rc::new(self.create_instance()?);
CreateInstance ==
    /\ stage = "configured"
    /\ \E vk \in VkDevice :
        /\ world' = Make(world, Obj("instance"), vk, "InstanceCreationError")
        /\ stage' = IF vk = "SUCCESS" THEN "instance" ELSE "failed"
    /\ UNCHANGED <<builder, swapvars, loopvars>>

\* let surface = self.create_surface(&instance)?;
CreateSurface ==
    /\ stage = "instance"
    /\ \E vk \in VkDevice :
        /\ world' = Make(world, Obj("surface"), vk, "InstanceError")
        /\ stage' = IF vk = "SUCCESS" THEN "surface" ELSE "failed"
    /\ UNCHANGED <<builder, swapvars, loopvars>>

\* PhysicalDeviceBuilder::build up to find_map: enumerate_physical_devices()?
EnumeratePhysicalDevices ==
    /\ stage = "surface"
    /\ \E vk \in VkDevice : \E n \in 0 .. MaxDevices :
        /\ vk # "SUCCESS" => n = 0
        /\ world' = IF vk = "SUCCESS"
                    THEN [Noted(world, "enumerate_physical_devices", Obj("instance"), "Ok")
                            EXCEPT !.devices = n]
                    ELSE Failed(Noted(world, "enumerate_physical_devices", Obj("instance"),
                                      "InstanceError"), "InstanceError")
        /\ stage' = IF vk = "SUCCESS" THEN "enumerated" ELSE "failed"
    /\ UNCHANGED <<builder, swapvars, loopvars>>

\* One turn of find_map: the closure on the next device in enumeration
\* order; the first Some ends the search and build returns the device.
\* After the last device find_map returns None and ok_or_else the error.
ExamineDevice ==
    /\ stage = "enumerated"
    /\ Len(world.examined) < world.devices
    /\ \E device \in PhysicalDevices :
       \E out \in {find_map_closure(builder.extensions, builder.sampler_anisotropy, device)} :
        LET seen == Append(world.examined,
                           [qualifies |-> Qualifies(builder, device),
                            taken |-> is_some(out.found)])
            w1 == [world EXCEPT !.examined = seen]
            last_one == Len(seen) = world.devices
        IN  IF out.panic
            THEN /\ world' = Failed(w1, "panic")
                 /\ stage' = "failed"
            ELSE IF is_some(out.found)
            THEN /\ world' = Kept(Held([w1 EXCEPT !.physical_device = out.found],
                                       Obj("physical_device")),
                                  Obj("physical_device"))
                 /\ stage' = "physical_device"
            ELSE IF last_one
            THEN /\ world' = Failed(w1, "PhysicalDeviceCreationError")
                 /\ stage' = "failed"
            ELSE /\ world' = w1
                 /\ stage' = "enumerated"
    /\ UNCHANGED <<builder, swapvars, loopvars>>

\* find_map over no device at all.
NoDeviceToExamine ==
    /\ stage = "enumerated"
    /\ world.devices = 0
    /\ world' = Failed(world, "PhysicalDeviceCreationError")
    /\ stage' = "failed"
    /\ UNCHANGED <<builder, swapvars, loopvars>>

\* VulkanDeviceBuilder::build: vkCreateDevice with the required features
\* enabled.  The driver refuses a feature the physical device does not
\* report with VK_ERROR_FEATURE_NOT_PRESENT.
VkCreateDevice(features, physical_device) ==
    IF features \subseteq physical_device.features
    THEN VkDevice
    ELSE {"ERROR_FEATURE_NOT_PRESENT"}

\* let device = Rc::new(self.create_logical_device(..)?);  The enumeration
\* of PhysicalDeviceBuilder::build is gone by then.
CreateLogicalDevice ==
    /\ stage = "physical_device"
    /\ \E vk \in VkCreateDevice(RequiredFeatures(builder), unwrap(world.physical_device)) :
        /\ world' = Make([world EXCEPT !.devices = 0, !.examined = <<>>],
                         Obj("device"), vk, "InstanceError")
        /\ stage' = IF vk = "SUCCESS" THEN "device" ELSE "failed"
    /\ UNCHANGED <<builder, swapvars, loopvars>>

\* let command_buffers = self.create_command_buffers(..)?;
CreateCommandBuffers ==
    /\ stage = "device"
    /\ \E vk \in VkDevice :
        /\ world' = Make(world, Obj("command_buffers"), vk, "DeviceError")
        /\ stage' = IF vk = "SUCCESS" THEN "command_buffers" ELSE "failed"
    /\ UNCHANGED <<builder, swapvars, loopvars>>

\* std::u32::MAX, the width of a current_extent the surface leaves to the
\* swapchain (src/src/swapchain.rs:274); the largest integer of the model
\* checker stands for 0xFFFFFFFF, no width or height explored reaches it.
U32_MAX == 2147483647

Extent2D(width, height) == [width |-> width, height |-> height]

\* vk::SurfaceCapabilitiesKHR as the surface reports them: the least image
\* count it supports and its current extent, authoritative or left open.
SurfaceCapabilities ==
    [min_image_count : 1 .. MaxImages,
     current_extent : {Extent2D(U32_MAX, U32_MAX), Extent2D(800, 480)}]

\* SwapchainBuilder::choose_surface_extent
choose_surface_extent_CallerWins(caps, width, height) == Extent2D(width, height)

choose_surface_extent(caps, width, height) ==
    IF caps.current_extent.width = U32_MAX
    THEN Extent2D(width, height)
    ELSE caps.current_extent

\* The vk::SwapchainCreateInfoKHR SwapchainBuilder::build fills in.
SwapchainCreateInfo(frames_count, swapchain_extent, old_swapchain) ==
    [min_image_count    |-> frames_count,
     image_extent       |-> swapchain_extent,
     image_sharing_mode |-> "EXCLUSIVE",
     old_swapchain      |-> old_swapchain]

\* vkCreateSwapchainKHR: how many images the driver may create.  A
\* min_image_count of at least the surface's is honoured; one below it
\* breaks the valid usage of the call and the driver may create any number.
SwapchainImageCounts(info, caps) ==
    IF info.min_image_count >= caps.min_image_count
    THEN info.min_image_count .. MaxImages
    ELSE 1 .. MaxImages

\* let swapchain = self.create_swapchain(..)?;  SwapchainBuilder::build with
\* no old swapchain: the surface queries, then the create call.
CreateSwapchain ==
    /\ stage = "command_buffers"
    /\ \E caps \in SurfaceCapabilities : \E query \in VkSurface : \E vk \in VkDevice :
       LET swapchain_extent == choose_surface_extent(caps, builder.width, builder.height)
           info == SwapchainCreateInfo(builder.frames_count, swapchain_extent, NullHandle)
       IN  \E N \in SwapchainImageCounts(info, caps) :
            /\ query # "SUCCESS" => vk = "SUCCESS"
            /\ (query # "SUCCESS" \/ vk # "SUCCESS")
                  => N = MaxImages
                     /\ caps = [min_image_count |-> 1,
                                current_extent |-> Extent2D(U32_MAX, U32_MAX)]
            /\ world' = IF query # "SUCCESS"
                        THEN Failed(Noted(world, "surface_query", Obj("surface"), "SurfaceError"),
                                    "SurfaceError")
                        ELSE Make([world EXCEPT !.swapchain =
                                       IF vk = "SUCCESS"
                                       THEN Some([info |-> info, caps |-> caps, images |-> N,
                                                  swapchain_extent |-> swapchain_extent])
                                       ELSE Nothing],
                                  Obj("swapchain"), vk, "SwapchainCreationError")
            /\ stage' = IF query = "SUCCESS" /\ vk = "SUCCESS" THEN "swapchain" ELSE "failed"
    /\ UNCHANGED <<builder, swapvars, loopvars>>

\* let depth_resources = self.create_depth_resources(..)?;  The image is
\* created with the builder's width and height.
CreateDepthResources ==
    /\ stage = "swapchain"
    /\ \E vk \in VkDevice :
        /\ world' = Make([world EXCEPT !.depth_image =
                              IF vk = "SUCCESS"
                              THEN Some(Extent2D(builder.width, builder.height))
                              ELSE Nothing],
                         Obj("depth_resources"), vk, "ImageCreationError")
        /\ stage' = IF vk = "SUCCESS" THEN "depth_resources" ELSE "failed"
    /\ UNCHANGED <<builder, swapvars, loopvars>>

\* let render_pass = self.create_render_pass(..)?;
CreateRenderPass ==
    /\ stage = "depth_resources"
    /\ \E vk \in VkDevice :
        /\ world' = Make(world, Obj("render_pass"), vk, "RenderPassCreationError")
        /\ stage' = IF vk = "SUCCESS" THEN "render_pass" ELSE "failed"
    /\ UNCHANGED <<builder, swapvars, loopvars>>

\* FrameBuffersBuilder::build: one frame buffer per requested frame, of the
\* builder's width and height, on the image view of the same index;
\* get_image_view panics past the swapchain's last image.
FrameBuffersBuilderBuild(frames_count, width, height, images) ==
    IF frames_count > images THEN Nothing
    ELSE Some([i \in 1 .. frames_count |->
                  [image |-> i - 1, width |-> width, height |-> height]])

\* let frame_buffers = self.create_frame_buffers(..)?; Ok(VulkanContext {..})
CreateFrameBuffers ==
    /\ stage = "render_pass"
    /\ \E vk \in VkDevice :
       \E out \in {FrameBuffersBuilderBuild(builder.frames_count, builder.width,
                                            builder.height,
                                            unwrap(world.swapchain).images)} :
        IF ~is_some(out)
        THEN /\ vk = "SUCCESS"
             /\ world' = Failed(world, "panic")
             /\ stage' = "failed"
        ELSE /\ world' = LET w1 == Make([world EXCEPT !.frame_buffers =
                                            IF vk = "SUCCESS" THEN unwrap(out) ELSE <<>>],
                                        Obj("frame_buffers"), vk, "DeviceError")
                         IN  IF vk = "SUCCESS" THEN [w1 EXCEPT !.res = "Ok"] ELSE w1
             /\ stage' = IF vk = "SUCCESS" THEN "built" ELSE "failed"
    /\ UNCHANGED <<builder, swapvars, loopvars>>

(***************************************************************************)
(* Buffers: memory-type selection, BufferBuilder and create_buffer.        *)
(***************************************************************************)
\* type_filter & (1 << i) != 0
BitSet_AnyBit(type_filter, i) == type_filter # 0
BitSet(type_filter, i) == (type_filter \div (2 ^ i)) % 2 = 1

\* PhysicalDevice::find_memory_type: the loop from index i on.  memory_types
\* holds the property flags of the device's memory types, type 0 first.
RECURSIVE find_memory_type_from(_, _, _, _)
find_memory_type_from(i, type_filter, properties, memory_types) ==
    IF i >= Len(memory_types) THEN Nothing
    ELSE IF BitSet(type_filter, i) /\ properties \subseteq memory_types[i + 1]
    THEN Some(i)
    ELSE find_memory_type_from(i + 1, type_filter, properties, memory_types)

find_memory_type(type_filter, properties, memory_types) ==
    find_memory_type_from(0, type_filter, properties, memory_types)

MemoryPropertyFlags == {"DEVICE_LOCAL", "HOST_VISIBLE", "HOST_COHERENT"}

BufferTypes == {"Staging", "Uniform", "Vertex"}

\* The memory properties BufferBuilder::build asks for, by buffer type.
BufferMemoryProperties(ty) ==
    IF ty = "Vertex" THEN {"DEVICE_LOCAL"} ELSE {"HOST_VISIBLE", "HOST_COHERENT"}

\* The memory types of the device the buffers are created on.
DeviceMemoryTypes == <<{"DEVICE_LOCAL"}, {"HOST_VISIBLE", "HOST_COHERENT"}>>

\* BufferBuilder::build.  `in.create` is the first failure among
\* vkCreateBuffer, vkAllocateMemory and vkBindBufferMemory, in.memory_type_bits
\* what vkGetBufferMemoryRequirements reports.
BufferBuilderBuild(w, v, ty, in) ==
    IF in.create # "SUCCESS"
    THEN [world |-> Noted(w, "create", v, "DeviceError"), res |-> "DeviceError"]
    ELSE IF ~is_some(find_memory_type(in.memory_type_bits, BufferMemoryProperties(ty),
                                      w.memory_types))
    THEN [world |-> Noted(w, "create", v, "VertexBufferCreationError"),
          res |-> "VertexBufferCreationError"]
    ELSE [world |-> Kept(Held(Noted(w, "create", v, "Ok"), v), v), res |-> "Ok"]

\* VulkanDevice::queue_wait_idle: on success nothing submitted is pending any
\* more; on failure what was submitted may still be executing.
dev_queue_wait_idle(w, vk) ==
    Noted(IF vk = "SUCCESS" THEN [w EXCEPT !.pending = {}] ELSE w,
          "queue_wait_idle", Obj("device"), ResultOf(vk, "DeviceError"))

\* CommandBuffers::end_single_time_commands for a command buffer whose
\* commands use the buffers `used`: end, submit with no fence, wait for the
\* queue to go idle, free the command buffer.
end_single_time_commands(w, used, in) ==
    LET w1 == Noted(w, "end_command_buffer", Obj("command_buffers"),
                    ResultOf(in.end, "DeviceError"))
        w2 == Noted(IF in.submit = "SUCCESS" THEN [w1 EXCEPT !.pending = @ \cup used] ELSE w1,
                    "queue_submit", Obj("command_buffers"), ResultOf(in.submit, "DeviceError"))
        w3 == dev_queue_wait_idle(w2, in.wait)
    IN  IF in.end # "SUCCESS" THEN [world |-> w1, res |-> "DeviceError"]
        ELSE IF in.submit # "SUCCESS" THEN [world |-> w2, res |-> "DeviceError"]
        ELSE IF in.wait # "SUCCESS" THEN [world |-> w3, res |-> "DeviceError"]
        ELSE [world |-> Noted(w3, "free_command_buffers", Obj("command_buffers"), "done"),
              res |-> "Ok"]

\* CommandBuffers::copy_buffer: begin_single_time_commands, the copy command,
\* end_single_time_commands.  `in.begin` is the first failure of the
\* allocation and of vkBeginCommandBuffer.
copy_buffer(w, src_buffer, dst_buffer, in) ==
    LET w1 == Noted(w, "begin_single_time_commands", Obj("command_buffers"),
                    ResultOf(in.begin, "DeviceError"))
    IN  IF in.begin # "SUCCESS" THEN [world |-> w1, res |-> "DeviceError"]
        ELSE end_single_time_commands(Noted(w1, "cmd_copy_buffer", src_buffer, "Ok"),
                                      {src_buffer, dst_buffer}, in)

\* The locals of a function going out of scope, last declared first.
RECURSIVE DropLocals(_, _)
DropLocals(w, locals) ==
    IF locals = <<>> THEN w
    ELSE DropLocals(DropValue(w, locals[Len(locals)]), SubSeq(locals, 1, Len(locals) - 1))

\* VulkanContext::create_buffer for the caller's k-th buffer.  The staging
\* buffer is a local: it is dropped wherever the function returns, and so is
\* the destination buffer when the copy fails.
create_buffer(w, k, ty, in) ==
    LET w0 == [w EXCEPT !.log = <<>>, !.op = "create_buffer"]
        staging == BufferBuilderBuild(w0, StagingObj(k), "Staging", in.staging)
        mapped == Noted(staging.world, "map_memory", StagingObj(k),
                        ResultOf(in.map, "DeviceError"))
        buffer == BufferBuilderBuild(mapped, BufferObj(k), ty, in.buffer)
        copied == copy_buffer(buffer.world, StagingObj(k), BufferObj(k), in)
    IN  IF staging.res # "Ok" THEN [world |-> staging.world, res |-> staging.res]
        ELSE IF in.map # "SUCCESS"
        THEN [world |-> DropLocals(mapped, <<StagingObj(k)>>), res |-> "DeviceError"]
        ELSE IF buffer.res # "Ok"
        THEN [world |-> DropLocals(buffer.world, <<StagingObj(k)>>), res |-> buffer.res]
        ELSE IF copied.res # "Ok"
        THEN [world |-> DropLocals(copied.world, <<StagingObj(k), BufferObj(k)>>),
              res |-> copied.res]
        ELSE [world |-> DropLocals(copied.world, <<StagingObj(k)>>), res |-> "Ok"]

VkQueueWaitIdle == {"SUCCESS", "ERROR_OUT_OF_HOST_MEMORY"}

\* What the driver answers to the calls of one create_buffer; the answers to
\* calls after the first failing one are never read.
CreateBufferInputs ==
    {in \in [staging : [create : VkDevice, memory_type_bits : 0 .. 3], map : VkDevice,
             buffer : [create : VkDevice, memory_type_bits : 0 .. 3],
             begin : VkDevice, end : VkDevice, submit : VkDevice, wait : VkQueueWaitIdle] :
        LET answers == <<in.staging.create, in.map, in.buffer.create, in.begin, in.end,
                         in.submit, in.wait>>
        IN  /\ \A i \in 1 .. 7 : answers[i] # "SUCCESS" =>
                  \A j \in (i + 1) .. 7 : answers[j] = "SUCCESS"
            /\ in.staging.create # "SUCCESS" => in.staging.memory_type_bits = 3
            /\ in.staging.memory_type_bits \in {0, 1} =>
                  /\ \A j \in 2 .. 7 : answers[j] = "SUCCESS"
                  /\ in.buffer.memory_type_bits = 3
            /\ (in.staging.create # "SUCCESS" \/ in.map # "SUCCESS" \/ in.buffer.create # "SUCCESS")
                  => in.buffer.memory_type_bits = 3}

\* The caller's context.create_buffer(ty, size, data).
CreateBuffer ==
    /\ stage = "built"
    /\ world.violation = "none"
    /\ world.buffers < MaxBuffers
    /\ \E ty \in BufferTypes \ {"Staging"} : \E in \in CreateBufferInputs :
       \E out \in {create_buffer(world, world.buffers + 1, ty, in)} :
        /\ out.res = "VertexBufferCreationError" =>
              \A a \in {in.begin, in.end, in.submit, in.wait} : a = "SUCCESS"
        /\ world' = [out.world EXCEPT !.buffers = @ + 1, !.res = out.res]
    /\ UNCHANGED <<builder, stage, swapvars, loopvars>>

\* The caller lets go of a buffer, before or after the context is gone.
BufferDropped ==
    /\ stage \in {"built", "dropped"}
    /\ world.violation = "none"
    /\ \E k \in 1 .. world.buffers :
        /\ \E i \in 1 .. Len(world.alive) : world.alive[i] = BufferObj(k)
        /\ world' = DropValue([world EXCEPT !.log = <<>>, !.op = "drop_buffer"], BufferObj(k))
    /\ UNCHANGED <<builder, stage, swapvars, loopvars>>

\* The fields of VulkanContext that own something, in declaration order: the
\* order in which they are dropped.
VulkanContextFields_SwapchainFirst ==
    <<Obj("swapchain"), Obj("frame_buffers"), Obj("render_pass"), Obj("depth_resources"),
      Obj("command_buffers"), Obj("device"), Obj("physical_device"), Obj("surface"),
      Obj("instance")>>

VulkanContextFields ==
    <<Obj("frame_buffers"), Obj("render_pass"), Obj("depth_resources"), Obj("swapchain"),
      Obj("command_buffers"), Obj("device"), Obj("physical_device"), Obj("surface"),
      Obj("instance")>>

RECURSIVE DropFields(_, _)
DropFields(w, fields) ==
    IF fields = <<>> THEN w ELSE DropFields(DropValue(w, Head(fields)), Tail(fields))

\* Drop for VulkanContext: the graphics queue then the present queue are
\* waited idle, each wait unwrapped; then, and also when an unwrap panics,
\* the fields are dropped in declaration order.
VulkanContextDrop(w, in) ==
    LET w0 == [w EXCEPT !.log = <<>>, !.op = "drop"]
        w1 == dev_queue_wait_idle(w0, in.graphics)
        w2 == IF in.graphics = "SUCCESS" THEN dev_queue_wait_idle(w1, in.present) ELSE w1
        panic == in.graphics # "SUCCESS" \/ in.present # "SUCCESS"
    IN  [DropFields(w2, VulkanContextFields) EXCEPT !.res = IF panic THEN "panic" ELSE "dropped"]

ContextDropped ==
    /\ stage = "built"
    /\ world.violation = "none"
    /\ \E in \in [graphics : VkQueueWaitIdle, present : VkQueueWaitIdle] :
        /\ in.graphics # "SUCCESS" => in.present = "SUCCESS"
        /\ world' = VulkanContextDrop(world, in)
    /\ stage' = "dropped"
    /\ UNCHANGED <<builder, swapvars, loopvars>>

\* PhysicalDevice::find_memory_type asked twice with the same arguments on a
\* device with the memory types `memory_types`, and a BufferBuilder::build
\* whose buffer has the memory requirements `type_filter`.
MemoryTypeTables == SeqsUpTo(SUBSET MemoryPropertyFlags, MaxMemoryTypes)

FindMemoryType ==
    /\ stage = "built"
    /\ ~is_some(world.lookup)
    /\ \E memory_types \in MemoryTypeTables :
       \E type_filter \in 0 .. (2 ^ MaxMemoryTypes - 1) :
       \E ty \in BufferTypes :
        LET properties == BufferMemoryProperties(ty)
            w == [world EXCEPT !.memory_types = memory_types, !.op = "find_memory_type"]
        IN  world' = [w EXCEPT !.lookup =
                Some([type_filter |-> type_filter,
                      properties |-> properties,
                      found |-> find_memory_type(type_filter, properties, memory_types),
                      again |-> find_memory_type(type_filter, properties, memory_types),
                      build |-> BufferBuilderBuild(w, BufferObj(1), ty,
                                                   [create |-> "SUCCESS",
                                                    memory_type_bits |-> type_filter]).res])]
    /\ UNCHANGED <<builder, stage, swapvars, loopvars>>

NextContext ==
    \/ ContextBuilderNew
    \/ CreateInstance
    \/ CreateSurface
    \/ EnumeratePhysicalDevices
    \/ ExamineDevice
    \/ NoDeviceToExamine
    \/ CreateLogicalDevice
    \/ CreateCommandBuffers
    \/ CreateSwapchain
    \/ CreateDepthResources
    \/ CreateRenderPass
    \/ CreateFrameBuffers

\* The frame loop plays no part in construction: one ring is enough.
InitContext ==
    /\ Init
    /\ ctx.frames_count = 1
    /\ swapchain.images = 1

SpecContext == InitContext /\ [][NextContext]_vars

\* A context VulkanContextBuilder::build returned Ok for, every call having
\* succeeded on the first device.
DefaultBuilder ==
    [frames_count |-> 2, width |-> 640, height |-> 480, extensions |-> {},
     sampler_anisotropy |-> FALSE, runtime_descriptor_array |-> FALSE]

ConstructionOrder ==
    <<Obj("instance"), Obj("surface"), Obj("physical_device"), Obj("device"),
      Obj("command_buffers"), Obj("swapchain"), Obj("depth_resources"), Obj("render_pass"),
      Obj("frame_buffers")>>

RECURSIVE MadeInOrder(_, _)
MadeInOrder(w, order) ==
    IF order = <<>> THEN w
    ELSE MadeInOrder(IF Head(order) = Obj("physical_device")
                     THEN Kept(Held(w, Head(order)), Head(order))
                     ELSE Make(w, Head(order), "SUCCESS", "none"),
                     Tail(order))

BuiltWorld ==
    [MadeInOrder(WorldStart, ConstructionOrder)
        EXCEPT !.res = "Ok", !.memory_types = DeviceMemoryTypes]

InitLife ==
    /\ InitLoop
    /\ ctx.frames_count = DefaultBuilder.frames_count
    /\ swapchain.images = DefaultBuilder.frames_count
    /\ builder = DefaultBuilder
    /\ stage = "built"
    /\ world = BuiltWorld

NextLife ==
    \/ CreateBuffer
    \/ BufferDropped
    \/ ContextDropped

SpecLife == InitLife /\ [][NextLife]_vars

SpecMemory == InitLife /\ [][FindMemoryType]_vars

(***************************************************************************)
(* The surface selections of SwapchainBuilder: format and present mode.    *)
(***************************************************************************)
SurfaceFormatKHR(format, color_space) == [format |-> format, color_space |-> color_space]

\* The (format, color space) pairs a surface may report.
SurfaceFormats ==
    {SurfaceFormatKHR(f, c) : f \in {"UNDEFINED", "B8G8R8A8_UNORM", "R8G8B8A8_UNORM"},
                              c \in {"SRGB_NONLINEAR", "EXTENDED_SRGB_LINEAR"}}

PresentModes == {"IMMEDIATE", "MAILBOX", "FIFO", "FIFO_RELAXED"}

\* formats.iter().find_map(..): the first B8G8R8A8_UNORM / SRGB_NONLINEAR
\* entry from position i on.
RECURSIVE find_map_format(_, _)
find_map_format(formats, i) ==
    IF i > Len(formats) THEN Nothing
    ELSE IF formats[i].format = "B8G8R8A8_UNORM" /\ formats[i].color_space = "SRGB_NONLINEAR"
    THEN Some(formats[i])
    ELSE find_map_format(formats, i + 1)

\* SwapchainBuilder::choose_surface_format on the answer of the surface
\* query.  unwrap_or(formats[0]) evaluates formats[0] before it is needed:
\* on an empty list the index panics.
choose_surface_format_Last(vk, formats) ==
    IF vk # "SUCCESS" THEN [res |-> "SurfaceError", format |-> Nothing]
    ELSE IF Len(formats) = 1 /\ formats[1].format = "UNDEFINED"
    THEN [res |-> "Ok", format |-> Some(SurfaceFormatKHR("B8G8R8A8_UNORM", "SRGB_NONLINEAR"))]
    ELSE IF formats = <<>> THEN [res |-> "panic", format |-> Nothing]
    ELSE [res |-> "Ok",
          format |-> IF is_some(find_map_format(formats, 1))
                     THEN find_map_format(formats, 1)
                     ELSE Some(formats[Len(formats)])]

choose_surface_format(vk, formats) ==
    IF vk # "SUCCESS" THEN [res |-> "SurfaceError", format |-> Nothing]
    ELSE IF Len(formats) = 1 /\ formats[1].format = "UNDEFINED"
    THEN [res |-> "Ok", format |-> Some(SurfaceFormatKHR("B8G8R8A8_UNORM", "SRGB_NONLINEAR"))]
    ELSE IF formats = <<>> THEN [res |-> "panic", format |-> Nothing]
    ELSE [res |-> "Ok",
          format |-> IF is_some(find_map_format(formats, 1))
                     THEN find_map_format(formats, 1)
                     ELSE Some(formats[1])]

\* present_modes.into_iter().find(|mode| *mode == MAILBOX) from position i on.
RECURSIVE find_mailbox(_, _)
find_mailbox(present_modes, i) ==
    IF i > Len(present_modes) THEN Nothing
    ELSE IF present_modes[i] = "MAILBOX" THEN Some(present_modes[i])
    ELSE find_mailbox(present_modes, i + 1)

\* SwapchainBuilder::choose_present_mode on the answer of the surface query.
choose_present_mode_First(vk, present_modes) ==
    IF vk # "SUCCESS" THEN [res |-> "SurfaceError", mode |-> Nothing]
    ELSE [res |-> "Ok",
          mode |-> IF present_modes # <<>> THEN Some(present_modes[1]) ELSE Some("FIFO")]

choose_present_mode(vk, present_modes) ==
    IF vk # "SUCCESS" THEN [res |-> "SurfaceError", mode |-> Nothing]
    ELSE [res |-> "Ok",
          mode |-> IF is_some(find_mailbox(present_modes, 1))
                   THEN find_mailbox(present_modes, 1)
                   ELSE Some("FIFO")]

\* let surface_format = self.choose_surface_format()?;  called twice on the
\* same answer of the surface.
ChooseSurfaceFormat ==
    /\ stage = "built"
    /\ ~is_some(world.lookup)
    /\ \E vk \in VkSurface : \E formats \in SeqsUpTo(SurfaceFormats, MaxFormats) :
        /\ vk # "SUCCESS" => formats = <<>>
        /\ world' = [world EXCEPT !.op = "choose_surface_format",
                                  !.lookup = Some([vk |-> vk,
                                                   formats |-> formats,
                                                   found |-> choose_surface_format(vk, formats),
                                                   again |-> choose_surface_format(vk, formats)])]
    /\ UNCHANGED <<builder, stage, swapvars, loopvars>>

\* let present_mode = self.choose_present_mode()?;
ChoosePresentMode ==
    /\ stage = "built"
    /\ ~is_some(world.lookup)
    /\ \E vk \in VkSurface : \E present_modes \in SeqsUpTo(PresentModes, MaxPresentModes) :
        /\ vk # "SUCCESS" => present_modes = <<>>
        /\ world' = [world EXCEPT !.op = "choose_present_mode",
                                  !.lookup = Some([vk |-> vk,
                                                   present_modes |-> present_modes,
                                                   found |-> choose_present_mode(vk, present_modes)])]
    /\ UNCHANGED <<builder, stage, swapvars, loopvars>>

NextSurface == ChooseSurfaceFormat \/ ChoosePresentMode

SpecSurface == InitLife /\ [][NextSurface]_vars

(***************************************************************************)
(* The memory-type selector used for images (src/src/instance.rs).         *)
(***************************************************************************)
\* vk::PhysicalDeviceMemoryProperties: memory_types is an array of fixed
\* size, MaxMemoryTypes entries here, of which the driver defines the first
\* memory_type_count; what the entries after them hold is not specified.
PhysicalDeviceMemoryProperties ==
    [memory_type_count : 0 .. MaxMemoryTypes,
     memory_types : [1 .. MaxMemoryTypes -> SUBSET MemoryPropertyFlags]]

\* memory_types.iter().enumerate().find_map(..) from `index` on: the whole
\* array is walked, memory_type_count is not read.
RECURSIVE instance_find_map(_, _, _, _)
instance_find_map(index, type_filter, properties, memory_types) ==
    IF index >= Len(memory_types) THEN Nothing
    ELSE IF BitSet(type_filter, index) /\ properties \subseteq memory_types[index + 1]
    THEN Some(index)
    ELSE instance_find_map(index + 1, type_filter, properties, memory_types)

\* VulkanInstance::find_memory_type
instance_find_memory_type(type_filter, properties, memory_properties) ==
    instance_find_map(0, type_filter, properties, memory_properties.memory_types)

\* The same request made to PhysicalDevice::find_memory_type, as
\* BufferBuilder::build does, and to VulkanInstance::find_memory_type, as
\* create_image does.  The first reads the memory_type_count first entries.
FindMemoryTypeBoth ==
    /\ stage = "built"
    /\ ~is_some(world.lookup)
    /\ \E memory_properties \in PhysicalDeviceMemoryProperties :
       \E type_filter \in 0 .. (2 ^ MaxMemoryTypes - 1) :
       \E properties \in SUBSET MemoryPropertyFlags :
        LET memory_types == SubSeq(memory_properties.memory_types, 1,
                                   memory_properties.memory_type_count)
        IN  world' = [world EXCEPT
                !.memory_types = memory_types,
                !.op = "find_memory_type_both",
                !.lookup = Some([memory_properties |-> memory_properties,
                                 type_filter |-> type_filter,
                                 properties |-> properties,
                                 buffers |-> find_memory_type(type_filter, properties,
                                                              memory_types),
                                 images |-> instance_find_memory_type(type_filter, properties,
                                                                      memory_properties)])]
    /\ UNCHANGED <<builder, stage, swapvars, loopvars>>

SpecSelectors == InitLife /\ [][FindMemoryTypeBoth]_vars

(***************************************************************************)
(* Properties of the frame loop.                                           *)
(***************************************************************************)
HasCall(d, name) == \E j \in 1 .. Len(d.log) : d.log[j].call = name

\* C1: from a freshly built context, after M complete successful cycles
\* frame_begin -> frame_end -> frame_present the ring index is M mod F, and
\* the cycle in progress uses slot M mod F; for F = 2 the slots of five
\* successive cycles are 0,1,0,1,0.
RingIndexIsCyclesModF ==
    clean =>
        /\ ctx.frame_index = cycles % ctx.frames_count
        /\ phase # "idle" =>
              /\ cyc.acq.slot = cycles % ctx.frames_count
              /\ cyc.acq.semaphore = PresentCompleteOf(cycles % ctx.frames_count)
              /\ dev.cb[CommandBufferOf(cycles % ctx.frames_count)]
                    \in {"recording", "pending", "invalid"}
        /\ (ctx.frames_count = 2 /\ phase # "idle" /\ cycles < 5) =>
              cyc.acq.slot = <<0, 1, 0, 1, 0>>[cycles + 1]

FiveCyclesDoubleBuffered ==
    clean /\ ctx.frames_count = 2 /\ cycles = 5 /\ ctx.frame_index = 1

\* C2: frame_begin never begins recording the command buffer of a slot whose
\* previous submission is still pending; it begins recording only after the
\* wait on that slot's own fence returned success.
NoReRecordWhilePending ==
    /\ dev.violation # "begin_while_pending"
    /\ (last.op = "frame_begin" /\ HasCall(dev, "begin_command_buffer")) =>
          LET i == pre.ctx.frame_index
          IN  /\ dev.log[1].call = "wait_for_fences"
              /\ dev.log[1].res = "Ok"
              /\ dev.log[1].args.fence = FenceOf(i)
              /\ dev.log[Len(dev.log)].args.cb = CommandBufferOf(i)
              /\ pre.fence
              /\ pre.cb # "pending"
              /\ \A j \in 1 .. Len(dev.inflight) : dev.inflight[j].cb # CommandBufferOf(i)

SlotReusedAfterFence ==
    /\ last.op = "frame_begin" /\ last.res = "Ok"
    /\ pre.cb = "invalid"
    /\ dev.cb[CommandBufferOf(pre.ctx.frame_index)] = "recording"

\* C3: the submission frame_end makes in a cycle waits, at the
\* color-attachment-output stage, on the semaphore frame_begin handed to
\* acquire_next_image in that cycle.
SubmitWaitsOnAcquireSemaphore ==
    (last.op = "frame_end" /\ pre.phase = "recording" /\ HasCall(dev, "queue_submit")) =>
        LET sub == dev.log[Len(dev.log)].args
        IN  /\ cyc.acq # None
            /\ sub.wait = cyc.acq.semaphore
            /\ sub.stage = "COLOR_ATTACHMENT_OUTPUT"
            /\ sub.cb = CommandBufferOf(cyc.acq.slot)

SubmittedSecondSlot ==
    /\ last.op = "frame_end" /\ last.res = "Ok" /\ pre.phase = "recording"
    /\ pre.ctx.frame_index = 1

\* C4: a frame_present that follows a successful frame_end presents the image
\* index the cycle's acquire returned and waits on the semaphore signaled by
\* the cycle's submission, whose command buffer recorded into no other image.
PresentWaitsOnSubmitOfAcquiredImage ==
    (last.op = "frame_present" /\ pre.phase = "submitted") =>
        LET p == dev.log[1].args
        IN  /\ cyc.acq # None
            /\ cyc.sub # None
            /\ p.image_index = cyc.acq.image
            /\ p.semaphore = cyc.sub.signal
            /\ cyc.sub.cb = CommandBufferOf(cyc.acq.slot)
            /\ dev.targets[cyc.sub.cb] \subseteq {cyc.acq.image}

PresentedImageOtherThanSlot ==
    /\ last = [op |-> "frame_present", res |-> "Ok"]
    /\ pre.phase = "submitted"
    /\ dev.log[1].args.image_index # pre.ctx.frame_index

\* C5: after any sequence of frame_begin, frame_end and frame_present calls at
\* most one slot's command buffer is recording, and it is the slot at the ring
\* index.
OnlyRingSlotRecording ==
    \A i \in Slots(ctx.frames_count) :
        dev.cb[CommandBufferOf(i)] = "recording" => i = ctx.frame_index

\* C6: frame_end ends the recording, then resets the slot's fence, then makes
\* one submission of the slot's command buffer that signals the slot's
\* render-complete semaphore and fence; a failed step ends the call.
FrameEndStepsInOrder ==
    last.op = "frame_end" =>
        LET i == pre.ctx.frame_index
            log == dev.log
        IN  /\ Len(log) \in 1 .. 3
            /\ log[1].call = "end_command_buffer"
            /\ log[1].args.cb = CommandBufferOf(i)
            /\ log[1].res # "Ok" =>
                  /\ Len(log) = 1
                  /\ dev.fence[FenceOf(i)] = pre.fence
            /\ log[1].res = "Ok" =>
                  /\ Len(log) >= 2
                  /\ log[2].call = "reset_fences"
                  /\ log[2].args.fence = FenceOf(i)
                  /\ log[2].res # "Ok" => Len(log) = 2
                  /\ log[2].res = "Ok" =>
                        /\ Len(log) = 3
                        /\ log[3].call = "queue_submit"
                        /\ log[3].args.cb = CommandBufferOf(i)
                        /\ log[3].args.signal = RenderCompleteOf(i)
                        /\ log[3].args.fence = FenceOf(i)
            /\ last.res = log[Len(log)].res

FrameEndStoppedAtFenceReset ==
    /\ last.op = "frame_end"
    /\ Len(dev.log) = 2
    /\ dev.log[2].res = "DeviceError"
    /\ dev.inflight = <<>>

\* C10: when the slot's fence is not signaled within the timeout, frame_begin
\* makes one wait with the fixed timeout, returns DeviceError, acquires no
\* image, begins no recording and leaves the ring index and the back-buffer
\* index as they were.
FenceTimeoutEndsFrameBegin ==
    (last.op = "frame_begin" /\ ~pre.fence) =>
        /\ last.res = "DeviceError"
        /\ Len(dev.log) = 1
        /\ dev.log[1].call = "wait_for_fences"
        /\ dev.log[1].args = [fence |-> FenceOf(pre.ctx.frame_index), timeout |-> FENCE_TIMEOUT]
        /\ ctx = pre.ctx
        /\ dev.cb[CommandBufferOf(pre.ctx.frame_index)] # "recording"

FrameBeginTimedOut ==
    /\ last = [op |-> "frame_begin", res |-> "DeviceError"]
    /\ ~pre.fence
    /\ dev.log[1].vk = "TIMEOUT"

(***************************************************************************)
(* Properties of the swapchain's construction.                             *)
(***************************************************************************)
CallsOf(g, name) == {j \in 1 .. Len(g.log) : g.log[j].call = name}

\* C9: a build given an old swapchain creates the new one while the old one
\* is alive, and destroys the old one exactly once, after the new one was
\* created successfully and never otherwise.
OldSwapchainDestroyedOnceAfterCreate ==
    (built.op = "build" /\ built.old # NullHandle) =>
        LET creates == CallsOf(gpu, "create_swapchain")
            destroys == {j \in CallsOf(gpu, "destroy_swapchain") : gpu.log[j].arg = built.old}
            created == {j \in creates : gpu.log[j].res = "Ok"}
        IN  /\ built.res # "panic"
            /\ \A j \in creates : gpu.log[j].arg.old_alive
            /\ created # {} => Cardinality(destroys) = 1
            /\ \A j \in destroys : \E k \in created : k < j
            /\ created = {} => CallsOf(gpu, "destroy_image_view") = {}

\* C11: acquire_next_image and queue_present never report success when the
\* driver answers out-of-date or suboptimal: the call is SwapchainError and
\* the frame_begin or frame_present that made it fails with SwapchainError.
StaleSwapchainIsNeverSuccess ==
    last.op \in {"frame_begin", "frame_present"} =>
        \A j \in 1 .. Len(dev.log) :
            (/\ dev.log[j].call \in {"acquire_next_image", "queue_present"}
             /\ dev.log[j].vk \in {"SUBOPTIMAL_KHR", "ERROR_OUT_OF_DATE_KHR"}) =>
                /\ dev.log[j].res = "SwapchainError"
                /\ last.res = "SwapchainError"

\* C12: there is one frame buffer per swapchain image: for every image index
\* k acquire_next_image can return, begin_render_pass finds a frame buffer at
\* index k, that frame buffer binds the image view of image k, and no
\* begin_render_pass fails to find its frame buffer.
FrameBufferPerSwapchainImage ==
    /\ Len(swapchain.frame_buffers) = swapchain.images
    /\ \A k \in Images(swapchain) :
          /\ frame_buffers_get(swapchain, k) # None
          /\ frame_buffers_get(swapchain, k).image = k
    /\ last.op = "begin_render_pass" => last.res # "panic"

(***************************************************************************)
(* Properties of the construction of the context.                          *)
(***************************************************************************)
\* C13: every swapchain that is created has at least as many images as the
\* requested frame count and at least as many as the minimum image count the
\* surface reports.
SwapchainHasEnoughImages ==
    is_some(world.swapchain) =>
        /\ unwrap(world.swapchain).images >= builder.frames_count
        /\ unwrap(world.swapchain).images >= unwrap(world.swapchain).caps.min_image_count

\* C14: the depth image and every frame buffer have the width and height of
\* the swapchain extent, whatever the surface reports as its current extent.
RenderTargetsHaveSwapchainExtent ==
    is_some(world.swapchain) =>
        LET extent == unwrap(world.swapchain).swapchain_extent
        IN  /\ is_some(world.depth_image) => unwrap(world.depth_image) = extent
            /\ \A i \in 1 .. Len(world.frame_buffers) :
                  /\ world.frame_buffers[i].width = extent.width
                  /\ world.frame_buffers[i].height = extent.height

(***************************************************************************)
(* Properties of a built context: teardown, buffers, memory types.         *)
(***************************************************************************)
Places(seq, v) == {i \in 1 .. Len(seq) : seq[i] = v}

\* C15: when the context is dropped the queue waits come before every
\* destroy; every object the context owns is destroyed exactly once, the
\* frame buffers, render pass, depth resources, swapchain and ring in the
\* reverse of the order they were created in; the logical device is destroyed
\* only after every object created from it, the caller's buffers included,
\* and the instance only after the device and the surface.
TeardownInDependencyOrder ==
    LET d == world.destroyed
        gone(v) == Places(d, v) # {}
        at(v) == CHOOSE i \in Places(d, v) : TRUE
        made(v) == CHOOSE i \in Places(world.created, v) : TRUE
        children == {world.created[i] : i \in {j \in 1 .. Len(world.created) :
                                                  world.created[j][1] \in DeviceChildren}}
        owned == {Obj("frame_buffers"), Obj("render_pass"), Obj("depth_resources"),
                  Obj("swapchain"), Obj("command_buffers")}
    IN  /\ \A i \in 1 .. Len(d) : Places(d, d[i]) = {i}
        /\ gone(Obj("device")) =>
              \A c \in children : gone(c) /\ at(c) < at(Obj("device"))
        /\ gone(Obj("instance")) =>
              /\ gone(Obj("device")) /\ at(Obj("device")) < at(Obj("instance"))
              /\ gone(Obj("surface")) /\ at(Obj("surface")) < at(Obj("instance"))
        /\ stage = "dropped" =>
              /\ \A v \in owned \cup {Obj("surface")} : gone(v)
              /\ \A u \in owned : \A v \in owned : made(u) < made(v) => at(v) < at(u)
              /\ world.alive = <<>> => gone(Obj("device")) /\ gone(Obj("instance"))
        /\ world.op = "drop" =>
              /\ world.log[1].call = "queue_wait_idle"
              /\ \A j \in 1 .. Len(world.log) :
                    world.log[j].call = "destroy" => j > 1
              /\ world.res = "dropped" =>
                    /\ world.log[2].call = "queue_wait_idle"
                    /\ world.log[1].res = "Ok" /\ world.log[2].res = "Ok"
                    /\ \A j \in 1 .. Len(world.log) : world.log[j].call = "destroy" => j > 2

CallerBufferOutlivedContext ==
    /\ stage = "dropped"
    /\ world.op = "drop_buffer"
    /\ world.alive = <<>>
    /\ world.log[Len(world.log)] = [call |-> "destroy", obj |-> Obj("instance"), res |-> "done"]


\* C16: create_buffer is a synchronous staged upload: no buffer is destroyed
\* while the copy that uses it is pending; whenever the staging buffer is
\* destroyed after the copy was submitted, the queue has gone idle in between;
\* and create_buffer returns the destination buffer only after the copy was
\* submitted and the queue has gone idle.
StagingFreedAfterCopyCompletes ==
    world.op = "create_buffer" =>
        LET submitted(j) == /\ world.log[j].call = "queue_submit"
                            /\ world.log[j].res = "Ok"
            idle(j) == /\ world.log[j].call = "queue_wait_idle"
                       /\ world.log[j].res = "Ok"
        IN  /\ world.violation = "none"
            /\ \A i, j \in 1 .. Len(world.log) :
                  (/\ i < j
                   /\ submitted(i)
                   /\ world.log[j].call = "destroy"
                   /\ world.log[j].obj = StagingObj(world.buffers)) =>
                      \E n \in (i + 1) .. (j - 1) : idle(n)
            /\ world.res = "Ok" =>
                  \E i, n \in 1 .. Len(world.log) : i < n /\ submitted(i) /\ idle(n)


\* C17: memory-type selection is a function of (type_filter, required
\* property flags, memory-type table): it returns the lowest index i of the
\* table such that bit i of type_filter is set and the flags of type i
\* include the required flags, returns no index when no type matches, in
\* which case the buffer creation fails with an error, and a second call
\* with the same inputs returns the same index.
LowestMatchingMemoryType ==
    is_some(world.lookup) =>
        LET l == unwrap(world.lookup)
            matches == {i \in 0 .. (Len(world.memory_types) - 1) :
                           /\ (l.type_filter % (2 ^ (i + 1))) >= 2 ^ i
                           /\ \A p \in l.properties : p \in world.memory_types[i + 1]}
        IN  /\ l.again = l.found
            /\ matches = {} => /\ l.found = Nothing
                               /\ l.build = "VertexBufferCreationError"
            /\ matches # {} => /\ is_some(l.found)
                               /\ unwrap(l.found) \in matches
                               /\ \A i \in matches : unwrap(l.found) <= i
                               /\ l.build = "Ok"

\* The type of the lowest set bit lacks the required flags and the next one
\* is returned.
SecondMemoryTypeChosen ==
    /\ is_some(world.lookup)
    /\ unwrap(world.lookup).type_filter = 3
    /\ unwrap(world.lookup).found = Some(1)
    /\ unwrap(world.lookup).properties # {}


SelectedDeviceReportsRequiredFeatures ==
    is_some(world.physical_device) =>
        RequiredFeatures(builder) \subseteq unwrap(world.physical_device).features

\* C20: the swapchain's image sharing mode follows the queue configuration:
\* exclusive when the selected graphics and present queue families are the
\* same family, concurrent across the two families when they differ.
SharingModeFollowsQueueFamilies ==
    (is_some(world.swapchain) /\ is_some(world.physical_device)) =>
        LET p == unwrap(world.physical_device)
            mode == unwrap(world.swapchain).info.image_sharing_mode
        IN  IF p.graphics_queue_family = p.present_queue_family
            THEN mode = "EXCLUSIVE"
            ELSE mode = "CONCURRENT"


(***************************************************************************)
(* Properties of the surface selections.                                   *)
(***************************************************************************)
\* C23: when the surface reports the indeterminate current extent, the
\* swapchain extent is the caller-supplied (width, height); in every other
\* case it is the surface's current extent, whatever the caller supplied.
SurfaceExtentIsAuthoritative ==
    is_some(world.swapchain) =>
        LET s == unwrap(world.swapchain)
        IN  /\ s.info.image_extent = s.swapchain_extent
            /\ IF s.caps.current_extent = Extent2D(U32_MAX, U32_MAX)
               THEN s.swapchain_extent = Extent2D(builder.width, builder.height)
               ELSE s.swapchain_extent = s.caps.current_extent

\* The surface's extent is used although the caller asked for another one.
SurfaceExtentOverridesCaller ==
    /\ is_some(world.swapchain)
    /\ unwrap(world.swapchain).caps.current_extent = Extent2D(800, 480)
    /\ unwrap(world.swapchain).swapchain_extent = Extent2D(800, 480)
    /\ builder.width = 640


\* C21: swapchain format selection is a function of the list of reported
\* formats: a single entry with the undefined format gives (B8G8R8A8_UNORM,
\* SRGB_NONLINEAR); otherwise a list containing exactly that pair gives that
\* pair; otherwise the first reported format is the result; selecting twice
\* on the same list gives the same result.
SurfaceFormatSelection ==
    (is_some(world.lookup) /\ world.op = "choose_surface_format") =>
        LET l == unwrap(world.lookup)
            preferred == SurfaceFormatKHR("B8G8R8A8_UNORM", "SRGB_NONLINEAR")
        IN  /\ l.again = l.found
            /\ (l.vk = "SUCCESS" /\ l.formats # <<>>) =>
                  /\ l.found.res = "Ok"
                  /\ unwrap(l.found.format) =
                        IF Len(l.formats) = 1 /\ l.formats[1].format = "UNDEFINED"
                        THEN preferred
                        ELSE IF \E i \in 1 .. Len(l.formats) : l.formats[i] = preferred
                        THEN preferred
                        ELSE l.formats[1]

\* The preferred pair is absent from a list of several formats and the first
\* one is taken.
FirstFormatIsFallback ==
    /\ is_some(world.lookup)
    /\ world.op = "choose_surface_format"
    /\ Len(unwrap(world.lookup).formats) >= 2
    /\ unwrap(world.lookup).formats[1] # unwrap(world.lookup).formats[2]
    /\ unwrap(world.lookup).found.format = Some(unwrap(world.lookup).formats[1])
    /\ unwrap(world.lookup).formats[1].format # "B8G8R8A8_UNORM"

\* C22: present-mode selection returns MAILBOX when the surface lists
\* MAILBOX, and FIFO in every other case, an empty list and a list without
\* FIFO included.
PresentModeSelection ==
    (is_some(world.lookup) /\ world.op = "choose_present_mode") =>
        LET l == unwrap(world.lookup)
        IN  l.vk = "SUCCESS" =>
               /\ l.found.res = "Ok"
               /\ unwrap(l.found.mode) =
                     IF \E i \in 1 .. Len(l.present_modes) : l.present_modes[i] = "MAILBOX"
                     THEN "MAILBOX"
                     ELSE "FIFO"

\* FIFO is chosen although the surface does not list it.
FifoWithoutBeingListed ==
    /\ is_some(world.lookup)
    /\ world.op = "choose_present_mode"
    /\ unwrap(world.lookup).present_modes = <<"IMMEDIATE", "FIFO_RELAXED">>
    /\ unwrap(world.lookup).found.mode = Some("FIFO")


(***************************************************************************)
(* Properties of the ring's fences and semaphores, and of the frame        *)
(* operations' effect on the context.                                      *)
(***************************************************************************)
\* Right after construction every fence of the ring is signaled.
FencesSignaled ==
    last.op = "build" => \A i \in Slots(ctx.frames_count) : dev.fence[FenceOf(i)]

\* A step takes the fence of slot i from signaled to unsignaled only as the
\* reset of a frame_end on slot i.
FenceResetOnlyByFrameEnd ==
    \A i \in Slots(ctx.frames_count) :
        (dev.fence[FenceOf(i)] /\ ~dev'.fence[FenceOf(i)]) =>
            /\ last'.op = "frame_end"
            /\ ctx.frame_index = i
            /\ \E j \in OkCalls(dev', "reset_fences") : dev'.log[j].args.fence = FenceOf(i)

\* A frame_begin that finds the fence of its slot signaled does not time out
\* on it.
SignaledFencePassesWait ==
    (last.op = "frame_begin" /\ pre.fence) =>
        /\ dev.log[1].call = "wait_for_fences"
        /\ dev.log[1].args.fence = FenceOf(pre.ctx.frame_index)
        /\ dev.log[1].vk # "TIMEOUT"

\* C24: every slot of the ring is built with its fence signaled; the fence of
\* slot i stays signaled until a frame_end on slot i resets it, so the first
\* frame_begin on slot i finds it signaled and passes its fence wait with no
\* submission before it.
FencesBuiltSignaled ==
    /\ []FencesSignaled
    /\ [][FenceResetOnlyByFrameEnd]_vars
    /\ []SignaledFencePassesWait

\* The first frame_begin on slot 1 passed its wait while the submission of
\* slot 0 was still executing.
FirstBeginOnSecondSlot ==
    /\ clean
    /\ cycles = 1
    /\ ctx.frame_index = 1
    /\ last.op = "frame_begin"
    /\ last.res = "Ok"
    /\ pre.fence
    /\ dev.inflight # <<>>


\* What a step may do to the ring index and to the back-buffer index.
FrameEffectOfStep ==
    /\ ctx'.frames_count = ctx.frames_count
    /\ ctx'.frame_index # ctx.frame_index =>
          /\ last' = [op |-> "frame_present", res |-> "Ok"]
          /\ ctx'.frame_index = (ctx.frame_index + 1) % ctx.frames_count
          /\ OkCalls(dev', "queue_present") # {}
    /\ ctx'.back_buffer_index # ctx.back_buffer_index =>
          /\ last'.op = "frame_begin"
          /\ \E j \in OkCalls(dev', "acquire_next_image") :
                dev'.log[j].ret = ctx'.back_buffer_index

\* What the last frame operation did to the context it found.
FrameEffectOfLastCall ==
    /\ last.op = "frame_begin" =>
          /\ ctx.frame_index = pre.ctx.frame_index
          /\ IF OkCalls(dev, "acquire_next_image") = {}
             THEN ctx = pre.ctx
             ELSE \A j \in OkCalls(dev, "acquire_next_image") :
                     ctx.back_buffer_index = dev.log[j].ret
    /\ last.op = "frame_end" => ctx = pre.ctx
    /\ last.op = "frame_present" =>
          IF last.res = "Ok"
          THEN /\ ctx.frame_index = (pre.ctx.frame_index + 1) % ctx.frames_count
               /\ ctx.back_buffer_index = pre.ctx.back_buffer_index
          ELSE ctx = pre.ctx

\* C28: frame_begin and frame_end never change the ring index; frame_present
\* changes it only when the present call succeeds, and a failed frame_present
\* leaves the ring index and the back-buffer index unchanged; frame_begin
\* changes the back-buffer index only when the acquire succeeds, and then
\* sets it to the acquired index.
FrameEffect ==
    /\ [][FrameEffectOfStep]_vars
    /\ []FrameEffectOfLastCall

\* A frame_present of a submitted frame failed and left the context as it was.
FailedPresentLeftContext ==
    /\ last = [op |-> "frame_present", res |-> "SwapchainError"]
    /\ pre.phase = "submitted"
    /\ ctx = pre.ctx
    /\ ctx.frames_count = 2


\* C26: in every reachable state the fence of a ring slot is unsignaled only
\* if a submission that will signal it is pending on the queue; a frame_end
\* whose submission fails does not leave the fence reset with nothing
\* pending.
UnsignaledFenceHasPendingSubmission ==
    dev.violation = "none" =>
        \A i \in Slots(ctx.frames_count) :
            ~dev.fence[FenceOf(i)] => FenceInUse(dev, FenceOf(i))


\* C27: no binary semaphore of the ring receives a new signal operation
\* while its previous signal has not been consumed by a wait: not the
\* image-acquired semaphore from the acquire of a frame_begin called with no
\* frame in progress, not the render-complete semaphore from the submit of
\* the frame_end of a recorded frame, retries after a failed frame_begin or
\* a failed frame_present included.
NoSignalOnSignaledSemaphore ==
    /\ (last.op = "frame_begin" /\ pre.phase = "idle") =>
          dev.violation # "acquire_semaphore_already_signaled"
    /\ (last.op = "frame_end" /\ pre.phase = "recording") =>
          dev.violation # "submit_signal_already_signaled"


(***************************************************************************)
(* Properties of the one-time command buffers, of the error paths and of   *)
(* the two memory-type selectors.                                          *)
(***************************************************************************)
\* C29: every one-time command buffer allocated by begin_single_time_commands
\* is freed by the time the operation that allocated it returns, on success
\* and on every error path, a failing submit or idle wait included.
OneTimeCommandBufferIsFreed ==
    world.op = "create_buffer" =>
        \A j \in 1 .. Len(world.log) :
            (/\ world.log[j].call = "begin_single_time_commands"
             /\ world.log[j].res = "Ok") =>
                \E n \in (j + 1) .. Len(world.log) :
                    world.log[n].call = "free_command_buffers"


\* C30: the memory-type selector used for buffers and the one used for
\* images return the same result for every type_filter, every required
\* property set, the empty one included, and every memory-type table.
MemoryTypeSelectorsAgree ==
    (is_some(world.lookup) /\ world.op = "find_memory_type_both") =>
        unwrap(world.lookup).buffers = unwrap(world.lookup).images


\* C25: every fallible operation returns an explicit error value to its
\* caller and never aborts: a build of the context that does not succeed
\* returns one of the errors, also when a surface-support or extension query
\* fails while the device is selected.
BuildFailsWithAnError ==
    stage = "failed" =>
        /\ world.res # "panic"
        /\ world.res \notin {"building", "Ok"}

====
